---- MODULE Spec2Model ----
(***************************************************************************)
(* home-sentry: the presence-detection and escalation state machine of     *)
(* pkg/sentry (SentryManager).  Two goroutines act on one manager: the     *)
(* monitor goroutine running StartMonitor (and, nested in it, the shutdown *)
(* countdown of triggerShutdownWithCountdown), and the tray goroutine that *)
(* calls CancelShutdown.  Every critical section of the manager's mutex is *)
(* one atomic step; the steps of StartMonitor between two critical         *)
(* sections are separate steps, so that CancelShutdown can interleave with *)
(* the monitor wherever the Go scheduler allows it.                        *)
(***************************************************************************)
EXTENDS Integers, Sequences, FiniteSets, TLC

(* ----------------------------- bounds ---------------------------------- *)

\* graceCount is an unbounded int in the code; the failed-check step is
\* guarded so that it stays within 0..MaxGrace.
MaxGrace == 101

\* number of channel objects that can be told apart (the manager's current
\* cancel channel, the one a select is waiting on, and a fresh one)
NumChans == 3
\* cap on graceCount in the specification with the wide configuration
MaxGraceWide == 3
\* largest MaxAttempts of a RetryConfig
MaxAttemptsBound == 3
\* width of time.Duration (int64 in the code), scaled down
DurBits == 7
\* width of the float64 mantissa (53 bits in the code), scaled down
MantBits == 4

(* ------------------------ program constants ---------------------------- *)

StatusRoaming          == "Roaming"
StatusMonitoring       == "Monitoring"
StatusGracePeriod      == "GracePeriod"
StatusShutdownImminent == "ShutdownImminent"
StatusPaused           == "Paused"
StatusWaitingForPhone  == "WaitingForPhone"

SentryStatus ==
    { StatusRoaming, StatusMonitoring, StatusGracePeriod,
      StatusShutdownImminent, StatusPaused, StatusWaitingForPhone }

DetectionTypeIP  == "ip"
DetectionTypeMAC == "mac"

MinGraceChecks       == 1
MaxGraceChecks       == 100
DefaultGraceChecks   == 5
ShutdownMinDelay     == 5
ShutdownMaxDelay     == 300
DefaultShutdownDelay == 10

\* the beep ticker period in seconds, and the step by which the displayed
\* countdown decreases
BeepSeconds == 2

(* --------------------- inputs drawn by the model ----------------------- *)

\* values of settings.GraceChecks the configuration can hold (all within
\* [MinGraceChecks, MaxGraceChecks], which ValidateSettings enforces)
GraceChoices == { MinGraceChecks, 3, DefaultGraceChecks, MaxGraceChecks }

\* values of settings.ShutdownDelay (within [ShutdownMinDelay, ShutdownMaxDelay])
DelayChoices == { ShutdownMinDelay }

\* the configured device: detection type, link address, IP
DeviceChoices ==
    { [DetectionType |-> DetectionTypeMAC, PhoneMAC |-> "aa:bb:cc:dd:ee:ff", PhoneIP |-> ""],
      [DetectionType |-> DetectionTypeMAC, PhoneMAC |-> "", PhoneIP |-> "192.168.1.7"],
      [DetectionType |-> DetectionTypeIP,  PhoneMAC |-> "", PhoneIP |-> "0.0.0.0"] }

HomeSSIDChoices == { "HomeNet" }

\* what network.GetCurrentSSID can return
SSIDChoices == { "HomeNet", "CafeNet", "Unknown" }

\* the settings Load can return without an error
SettingsChoices ==
    { [HomeSSID |-> h, DetectionType |-> d.DetectionType, PhoneMAC |-> d.PhoneMAC,
       PhoneIP |-> d.PhoneIP, IsPaused |-> p, GraceChecks |-> g, ShutdownDelay |-> sd] :
         h \in HomeSSIDChoices, d \in DeviceChoices, p \in BOOLEAN,
         g \in GraceChoices, sd \in DelayChoices }

\* DefaultSettings(): what Load returns together with an error
DefaultSettings ==
    [HomeSSID |-> "", DetectionType |-> DetectionTypeMAC, PhoneMAC |-> "",
     PhoneIP |-> "", IsPaused |-> FALSE, GraceChecks |-> DefaultGraceChecks,
     ShutdownDelay |-> DefaultShutdownDelay]

\* contents of the state file: missing, unreadable/corrupt, or the JSON of a
\* SentryState
StateFileChoices == { "missing", "corrupt", "false", "true" }

\* a RetryConfig that asks for nothing
ZeroRetryConfig == [MaxAttempts |-> 0, Delay |-> 0, Multiplier |-> << 1, 1 >>]

\* nothing was returned yet
NoReturn == [result |-> 0, err |-> -1]

\* a link address as text: its twelve hex digits, their case, the separator
MacText(hex, upper, sep) == [hex |-> hex, upper |-> upper, sep |-> sep]

\* the empty string as a link address
NoMac == MacText("", FALSE, "-")

\* the goroutines that call the manager: the monitor loop and the tray
LkThreads == { "monitor", "tray" }

\* no field was accessed yet
NoAccess == [fn |-> "", field |-> "", op |-> "", held |-> TRUE]

ChanIds == 0 .. (NumChans - 1)
NoChan  == -1

\* the goroutines that call package config: the tray's click handlers
\* (main.go) and the callback of the phone-command listener
CfgThreads == { "tray", "ntfy" }

\* no config function is in progress
NoCfgOp == [fn |-> "none"]

\* the local variable settings before loadLocked assigned it
NoSettings == [loaded |-> FALSE]

\* nothing was returned yet
NoCfgReturn == [done |-> FALSE]

\* there is no settings file; the settings file cannot be read or parsed
MissingFile == [kind |-> "missing"]
CorruptFile == [kind |-> "corrupt"]

(* ------------------------------ state ---------------------------------- *)

VARIABLES
    \* SentryManager fields
    status, graceCount, phoneEverSeen, shutdownPending, cancelShutdown,
    closed,        \* the channel objects that have been closed
    stateFile,     \* the persisted SentryState
    \* the monitor goroutine: position and locals of StartMonitor
    pc, settings, loadOK, ssid, checked, alive, everSeen, currentGrace,
    \* locals of triggerShutdownWithCountdown
    selCh,         \* the channel s.cancelShutdown evaluated to in this select
    countdown, timerReady, tickReady,
    \* observation of the run (history, not program state)
    cycleStatuses, \* statuses passed to setStatus (and the callback) this cycle
    graceAtStart,  \* graceCount when the cycle began
    triggered,     \* triggerShutdownWithCountdown was entered this cycle
    timerFired,    \* the shutdown timer of this cycle's countdown has fired
    cancelEarly,   \* a CancelShutdown returned true before the timer fired
    cancelTrue,    \* a CancelShutdown returned true during this countdown
    executed,      \* executeShutdown was invoked this cycle
    saveCalls,     \* number of saveState calls so far
    initialEverSeen,
    \* one call of Retry / RetryWithResult
    rKind,         \* which of the two functions is running
    rConfig,       \* the RetryConfig argument
    rPc,           \* position in the function
    attempt, delay, rResult, rErr,   \* its locals
    rRet,          \* what it returned
    calls,         \* the outcomes of the invocations of operation, in order
    sleeps,        \* the arguments of the time.Sleep calls, in order
    \* one call of network.IsDeviceOnNetwork
    aPc,           \* position in the function
    aMac,          \* its parameter mac
    lastKnownIP,   \* its local
    aRet,          \* what it returned
    arpTable,      \* the neighbor table of the operating system
    onNet,         \* the devices that are on the network and answer
    hadEntry,      \* the table held an entry for the address when the call began
    evictOK,       \* the arp -d command of this call succeeded
    \* the manager's methods statement by statement, with its mutex
    mu,            \* s.mu: "free" or the goroutine that holds it
    stacks,        \* per goroutine, the calls in progress, innermost last
    lkFields,      \* the fields of the manager whose values decide a branch
    lkPos,         \* the call site of StartMonitor the monitor is at
    lkAccess,      \* per goroutine, its latest access to a field
    \* the process around the manager: phone commands, the persisted pause
    \* flag, the operating system
    remoteCmd,     \* the cancel command the phone sent during this countdown
    pausedFlag,    \* is_paused in the settings file
    osOps,         \* the commands executeShutdown ran this cycle, with effect
    ackSent,       \* a notification answered a phone command this cycle
    restarts,      \* how many times the process was started again
    \* package config: the settings file, its mutex, calls in progress
    settingsFile,  \* the settings file: missing, corrupt or its JSON
    settingsMu,    \* settingsMu: "free" or the goroutine that holds it
    cfgPc,         \* per goroutine, its position in the config function
    cfgOp,         \* per goroutine, the config function called, with arguments
    cfgLocal,      \* per goroutine, the local variable settings
    cfgRet,        \* per goroutine, what the function returned
    fileAtCall,    \* the settings file when the calls in progress began
    \* package ntfy: one Client, its listener goroutines, the topic
    nListening,    \* c.listening
    nCancelFunc,   \* c.cancelFunc: the listener whose context it cancels, or 0
    nRoutines,     \* the listener goroutines started so far, in order
    topic,         \* the messages of the last 10 s on the topic, oldest first
    posted,        \* how many messages were posted on the topic so far
    dispatched     \* the messages each listener passed to the callback: once, and
                   \* those it passed again

mgrVars   == << status, graceCount, phoneEverSeen, shutdownPending, cancelShutdown,
                closed, stateFile >>
cycleVars == << pc, settings, loadOK, ssid, checked, alive, everSeen, currentGrace >>
cdVars    == << selCh, countdown, timerReady, tickReady >>
obsVars   == << cycleStatuses, graceAtStart, triggered, timerFired, cancelEarly,
                cancelTrue, executed, saveCalls, initialEverSeen >>
cycleVars_noPc == << settings, loadOK, ssid, checked, alive, everSeen, currentGrace >>
sentryVars == << mgrVars, cycleVars, cdVars, obsVars >>
retryVars == << rKind, rConfig, rPc, attempt, delay, rResult, rErr, rRet, calls, sleeps >>
arpVars   == << aPc, aMac, lastKnownIP, aRet, arpTable, onNet, hadEntry, evictOK >>
\* the variables outside the sentry manager and its monitor goroutine
lockVars  == << mu, stacks, lkFields, lkPos, lkAccess >>
hostVars  == << remoteCmd, pausedFlag, osOps, ackSent, restarts >>
cfgVars   == << settingsFile, settingsMu, cfgPc, cfgOp, cfgLocal, cfgRet, fileAtCall >>
ntfyVars  == << nListening, nCancelFunc, nRoutines, topic, posted, dispatched >>
\* the variables outside the sentry manager and its monitor goroutine
extVars   == << retryVars, arpVars, lockVars, hostVars, cfgVars, ntfyVars >>
\* what the steps of Retry, of IsDeviceOnNetwork and of the statement-level
\* methods leave alone
retryFrame == << sentryVars, arpVars, lockVars, hostVars, cfgVars, ntfyVars >>
arpFrame  == << sentryVars, retryVars, lockVars, hostVars, cfgVars, ntfyVars >>
lockFrame == << sentryVars, retryVars, arpVars, hostVars, cfgVars, ntfyVars >>
hostFrame == << retryVars, arpVars, lockVars, cfgVars, ntfyVars >>
cfgFrame  == << sentryVars, retryVars, arpVars, lockVars, hostVars, ntfyVars >>
ntfyFrame == << sentryVars, retryVars, arpVars, lockVars, hostVars, cfgVars >>
vars      == << sentryVars, extVars >>

(* --------------------------- pure helpers ------------------------------ *)

\* loadState: the flag is taken from the file only when the file is readable
\* and is valid JSON of a SentryState; otherwise the default (false) stays
LoadState(file) == IF file \in {"true", "false"} THEN file = "true" ELSE FALSE

\* json.MarshalIndent(SentryState{PhoneEverSeen: b})
MarshalState(b) == IF b THEN "true" ELSE "false"

\* Settings.HasDeviceConfigured
HasDeviceConfigured(s) ==
    IF s.DetectionType = DetectionTypeMAC
    THEN s.PhoneMAC # ""
    ELSE s.PhoneIP # "" /\ s.PhoneIP # "0.0.0.0"

\* StartMonitor: the home-network test
OnHomeNetwork(name, s) == name = s.HomeSSID

\* GraceExpired with the comparison off by one (> for >=)
GraceExpired_strict(grace, s) == grace > s.GraceChecks

\* StartMonitor: the escalation test
GraceExpired(grace, s) == grace >= s.GraceChecks

\* make(chan struct{}): a channel object no one refers to any more
NewChan(inUse) == CHOOSE c \in ChanIds : c \notin inUse

\* the positions of the monitor goroutine inside triggerShutdownWithCountdown
CountdownPcs == { "arm", "startTimers", "selectEval", "selectPoll", "parked",
                  "caseBeep", "caseTimer", "execute", "caseCancel" }

\* the positions at which the shutdown timer and the beep ticker are running
TimerPcs == { "selectEval", "selectPoll", "parked", "caseBeep" }

(* ------------------------------ Init ----------------------------------- *)

\* NewSentryManager, followed by main's `go sentryManager.StartMonitor()`
SentryInit ==
    /\ stateFile \in StateFileChoices
    /\ status = StatusRoaming
    /\ graceCount = 0
    /\ phoneEverSeen = LoadState(stateFile)
    /\ shutdownPending = FALSE
    /\ cancelShutdown = 0
    /\ closed = {}
    /\ pc = "load"
    /\ settings = DefaultSettings
    /\ loadOK = FALSE
    /\ ssid = ""
    /\ checked = FALSE
    /\ alive = FALSE
    /\ everSeen = FALSE
    /\ currentGrace = 0
    /\ selCh = NoChan
    /\ countdown = 0
    /\ timerReady = FALSE
    /\ tickReady = FALSE
    /\ cycleStatuses = << >>
    /\ graceAtStart = 0
    /\ triggered = FALSE
    /\ timerFired = FALSE
    /\ cancelEarly = FALSE
    /\ cancelTrue = FALSE
    /\ executed = FALSE
    /\ saveCalls = 0
    /\ initialEverSeen = phoneEverSeen

\* no call of Retry or RetryWithResult is in progress
RetryIdle ==
    /\ rKind = "none"
    /\ rConfig = ZeroRetryConfig
    /\ rPc = "idle"
    /\ attempt = 0
    /\ delay = 0
    /\ rResult = 0
    /\ rErr = 0
    /\ rRet = NoReturn
    /\ calls = << >>
    /\ sleeps = << >>

\* no call of IsDeviceOnNetwork is in progress
ArpIdle ==
    /\ aPc = "idle"
    /\ aMac = NoMac
    /\ lastKnownIP = ""
    /\ aRet = FALSE
    /\ arpTable = {}
    /\ onNet = {}
    /\ hadEntry = FALSE
    /\ evictOK = FALSE

\* the statement-level view at rest: the mutex free, no call in progress
LockIdle ==
    /\ mu = "free"
    /\ stacks = [t \in LkThreads |-> << >>]
    /\ lkFields = [status |-> StatusRoaming, StatusCallback |-> "cb",
                   shutdownPending |-> FALSE, phoneEverSeen |-> FALSE]
    /\ lkPos = "paused"
    /\ lkAccess = [t \in LkThreads |-> NoAccess]

\* no phone command was received, protection is not paused, nothing was run
HostIdle ==
    /\ remoteCmd = "none"
    /\ pausedFlag = FALSE
    /\ osOps = << >>
    /\ ackSent = FALSE
    /\ restarts = 0

\* no settings file yet, no config function in progress
CfgIdle ==
    /\ settingsFile = MissingFile
    /\ settingsMu = "free"
    /\ cfgPc = [t \in CfgThreads |-> "idle"]
    /\ cfgOp = [t \in CfgThreads |-> NoCfgOp]
    /\ cfgLocal = [t \in CfgThreads |-> NoSettings]
    /\ cfgRet = [t \in CfgThreads |-> NoCfgReturn]
    /\ fileAtCall = MissingFile

\* NewClient: not listening, no cancel function, no listener goroutine; the
\* topic is empty
NtfyIdle ==
    /\ nListening = FALSE
    /\ nCancelFunc = 0
    /\ nRoutines = << >>
    /\ topic = << >>
    /\ posted = 0
    /\ dispatched = [once |-> {}, again |-> {}]

\* everything outside the manager is idle
ExtIdle == RetryIdle /\ ArpIdle /\ LockIdle /\ HostIdle /\ CfgIdle /\ NtfyIdle

\* the monitor of main.go: a fresh manager and its monitor goroutine
Init == SentryInit /\ ExtIdle

(* --------------------------- setStatus --------------------------------- *)

\* setStatus: write the status under the lock, then call the callback with it
setStatus(st) ==
    /\ status' = st
    /\ cycleStatuses' = Append(cycleStatuses, st)

(* ----------------------- StartMonitor, one cycle ----------------------- *)

\* LoadFails that counts the failed load as a failed presence check
LoadFails_countsAbsent ==
    /\ pc = "load"
    /\ graceCount < MaxGrace
    /\ graceCount' = graceCount + 1
    /\ pc' = "sleep"
    /\ settings' = DefaultSettings
    /\ loadOK' = FALSE
    /\ UNCHANGED << status, phoneEverSeen, shutdownPending, cancelShutdown, closed,
                    stateFile, ssid, checked, alive, everSeen, currentGrace, cdVars,
                    obsVars >>
    /\ UNCHANGED extVars

\* StartMonitor that gives up when the configuration cannot be loaded
LoadFails_returns ==
    /\ pc = "load"
    /\ pc' = "returned"
    /\ settings' = DefaultSettings
    /\ loadOK' = FALSE
    /\ UNCHANGED << mgrVars, ssid, checked, alive, everSeen, currentGrace, cdVars, obsVars >>
    /\ UNCHANGED extVars

\* config.Load fails: wait one interval and retry the whole cycle
LoadFails ==
    /\ pc = "load"
    /\ pc' = "sleep"
    /\ settings' = DefaultSettings
    /\ loadOK' = FALSE
    /\ UNCHANGED << mgrVars, ssid, checked, alive, everSeen, currentGrace, cdVars, obsVars >>
    /\ UNCHANGED extVars

\* config.Load succeeds with one of `choices`, GetCurrentSSID returns one of
\* `names`
LoadSettingsFrom(choices, names) ==
    /\ pc = "load"
    /\ \E s \in choices, name \in names :
          /\ settings' = s
          /\ ssid' = name
          /\ pc' = IF s.IsPaused THEN "paused" ELSE "branch"
    /\ loadOK' = TRUE
    /\ UNCHANGED << mgrVars, checked, alive, everSeen, currentGrace, cdVars, obsVars >>
    /\ UNCHANGED extVars

\* config.Load succeeds, GetCurrentSSID is read
LoadSettings == LoadSettingsFrom(SettingsChoices, SSIDChoices)

\* PausedCycle that also clears the grace count
PausedCycle_resetsGrace ==
    /\ pc = "paused"
    /\ setStatus(StatusPaused)
    /\ graceCount' = 0
    /\ pc' = "sleep"
    /\ UNCHANGED << phoneEverSeen, shutdownPending, cancelShutdown, closed,
                    stateFile, cycleVars_noPc, cdVars, graceAtStart, triggered,
                    timerFired, cancelEarly, cancelTrue, executed, saveCalls,
                    initialEverSeen >>
    /\ UNCHANGED extVars

\* PausedCycle that does not set the status
PausedCycle_keepsStatus ==
    /\ pc = "paused"
    /\ pc' = "sleep"
    /\ UNCHANGED << mgrVars, cycleVars_noPc, cdVars, obsVars >>
    /\ UNCHANGED extVars

\* settings.IsPaused: status Paused, nothing else
PausedCycle ==
    /\ pc = "paused"
    /\ setStatus(StatusPaused)
    /\ pc' = "sleep"
    /\ UNCHANGED << graceCount, phoneEverSeen, shutdownPending, cancelShutdown, closed,
                    stateFile, settings, loadOK, ssid, checked, alive, everSeen,
                    currentGrace, cdVars, graceAtStart, triggered, timerFired,
                    cancelEarly, cancelTrue, executed, saveCalls,
                    initialEverSeen >>
    /\ UNCHANGED extVars

\* not on the home network: status Roaming ...
RoamingStatus ==
    /\ pc = "branch"
    /\ ~OnHomeNetwork(ssid, settings)
    /\ setStatus(StatusRoaming)
    /\ pc' = "roamReset"
    /\ UNCHANGED << graceCount, phoneEverSeen, shutdownPending, cancelShutdown, closed,
                    stateFile, settings, loadOK, ssid, checked, alive, everSeen,
                    currentGrace, cdVars, graceAtStart, triggered, timerFired,
                    cancelEarly, cancelTrue, executed, saveCalls,
                    initialEverSeen >>
    /\ UNCHANGED extVars

\* RoamReset that leaves the grace count as it is
RoamReset_keepsGrace ==
    /\ pc = "roamReset"
    /\ pc' = "sleep"
    /\ UNCHANGED << mgrVars, cycleVars_noPc, cdVars, obsVars >>
    /\ UNCHANGED extVars

\* ... and graceCount = 0 under the lock
RoamReset ==
    /\ pc = "roamReset"
    /\ graceCount' = 0
    /\ pc' = "sleep"
    /\ UNCHANGED << status, phoneEverSeen, shutdownPending, cancelShutdown, closed,
                    stateFile, settings, loadOK, ssid, checked, alive, everSeen,
                    currentGrace, cdVars, obsVars >>
    /\ UNCHANGED extVars

\* on the home network, no device configured: status Roaming
NoDevice ==
    /\ pc = "branch"
    /\ OnHomeNetwork(ssid, settings)
    /\ ~HasDeviceConfigured(settings)
    /\ setStatus(StatusRoaming)
    /\ pc' = "sleep"
    /\ UNCHANGED << graceCount, phoneEverSeen, shutdownPending, cancelShutdown, closed,
                    stateFile, settings, loadOK, ssid, checked, alive, everSeen,
                    currentGrace, cdVars, graceAtStart, triggered, timerFired,
                    cancelEarly, cancelTrue, executed, saveCalls,
                    initialEverSeen >>
    /\ UNCHANGED extVars

\* network.IsDeviceOnNetwork returns true: status Monitoring
PhoneDetected ==
    /\ pc = "branch"
    /\ OnHomeNetwork(ssid, settings)
    /\ HasDeviceConfigured(settings)
    /\ checked' = TRUE
    /\ alive' = TRUE
    /\ setStatus(StatusMonitoring)
    /\ pc' = "presentLock"
    /\ UNCHANGED << graceCount, phoneEverSeen, shutdownPending, cancelShutdown, closed,
                    stateFile, settings, loadOK, ssid, everSeen,
                    currentGrace, cdVars, graceAtStart, triggered, timerFired,
                    cancelEarly, cancelTrue, executed, saveCalls,
                    initialEverSeen >>
    /\ UNCHANGED extVars

\* PresentLock that persists the flag on every successful check
PresentLock_alwaysSaves ==
    /\ pc = "presentLock"
    /\ graceCount' = 0
    /\ everSeen' = phoneEverSeen
    /\ phoneEverSeen' = TRUE
    /\ pc' = "save"
    /\ UNCHANGED << status, shutdownPending, cancelShutdown, closed, stateFile,
                    settings, loadOK, ssid, checked, alive, currentGrace, cdVars, obsVars >>
    /\ UNCHANGED extVars

\* the critical section of the present branch
PresentLock ==
    /\ pc = "presentLock"
    /\ graceCount' = 0
    /\ everSeen' = phoneEverSeen
    /\ phoneEverSeen' = TRUE
    /\ pc' = IF ~phoneEverSeen THEN "save" ELSE "sleep"
    /\ UNCHANGED << status, shutdownPending, cancelShutdown, closed, stateFile,
                    settings, loadOK, ssid, checked, alive, currentGrace, cdVars, obsVars >>
    /\ UNCHANGED extVars

\* saveState: best-effort write of the flag; a failed write is only logged
SaveState ==
    /\ pc = "save"
    /\ stateFile' \in { MarshalState(phoneEverSeen), stateFile }
    /\ saveCalls' = saveCalls + 1
    /\ pc' = "sleep"
    /\ UNCHANGED << status, graceCount, phoneEverSeen, shutdownPending, cancelShutdown,
                    closed, cycleVars_noPc, cdVars, cycleStatuses, graceAtStart,
                    triggered, timerFired, cancelEarly, cancelTrue, executed,
                    initialEverSeen >>
    /\ UNCHANGED extVars

\* PhoneMissing that waits for the phone whether or not it was ever seen
PhoneMissing_alwaysWaits ==
    /\ pc = "branch"
    /\ OnHomeNetwork(ssid, settings)
    /\ HasDeviceConfigured(settings)
    /\ checked' = TRUE
    /\ alive' = FALSE
    /\ everSeen' = phoneEverSeen
    /\ pc' = "waiting"
    /\ UNCHANGED << mgrVars, settings, loadOK, ssid, currentGrace, cdVars, obsVars >>
    /\ UNCHANGED extVars

\* PhoneMissing that enters the grace logic whether or not the phone was ever seen
PhoneMissing_alwaysGrace ==
    /\ pc = "branch"
    /\ OnHomeNetwork(ssid, settings)
    /\ HasDeviceConfigured(settings)
    /\ checked' = TRUE
    /\ alive' = FALSE
    /\ everSeen' = phoneEverSeen
    /\ pc' = "graceInc"
    /\ UNCHANGED << mgrVars, settings, loadOK, ssid, currentGrace, cdVars, obsVars >>
    /\ UNCHANGED extVars

\* network.IsDeviceOnNetwork returns false; phoneEverSeen is read under the lock
PhoneMissing ==
    /\ pc = "branch"
    /\ OnHomeNetwork(ssid, settings)
    /\ HasDeviceConfigured(settings)
    /\ checked' = TRUE
    /\ alive' = FALSE
    /\ everSeen' = phoneEverSeen
    /\ pc' = IF phoneEverSeen THEN "graceInc" ELSE "waiting"
    /\ UNCHANGED << mgrVars, settings, loadOK, ssid, currentGrace, cdVars, obsVars >>
    /\ UNCHANGED extVars

\* the phone was never seen: status WaitingForPhone
WaitingStatus ==
    /\ pc = "waiting"
    /\ setStatus(StatusWaitingForPhone)
    /\ pc' = "sleep"
    /\ UNCHANGED << graceCount, phoneEverSeen, shutdownPending, cancelShutdown, closed,
                    stateFile, cycleVars_noPc, cdVars, graceAtStart, triggered,
                    timerFired, cancelEarly, cancelTrue, executed, saveCalls, initialEverSeen >>
    /\ UNCHANGED extVars

\* GraceInc that takes currentGrace before the increment
GraceInc_staleRead ==
    /\ pc = "graceInc"
    /\ graceCount < MaxGrace
    /\ graceCount' = graceCount + 1
    /\ currentGrace' = graceCount
    /\ pc' = "graceStatus"
    /\ UNCHANGED << status, phoneEverSeen, shutdownPending, cancelShutdown, closed,
                    stateFile, settings, loadOK, ssid, checked, alive, everSeen,
                    cdVars, obsVars >>
    /\ UNCHANGED extVars

\* s.graceCount++ under the lock, while the count is below `bound`
GraceIncTo(bound) ==
    /\ pc = "graceInc"
    /\ graceCount < bound
    /\ graceCount' = graceCount + 1
    /\ currentGrace' = graceCount + 1
    /\ pc' = "graceStatus"
    /\ UNCHANGED << status, phoneEverSeen, shutdownPending, cancelShutdown, closed,
                    stateFile, settings, loadOK, ssid, checked, alive, everSeen,
                    cdVars, obsVars >>
    /\ UNCHANGED extVars

\* s.graceCount++ under the lock
GraceInc == GraceIncTo(MaxGrace)

\* status GracePeriod, then the escalation test
GraceStatus ==
    /\ pc = "graceStatus"
    /\ setStatus(StatusGracePeriod)
    /\ pc' = IF GraceExpired(currentGrace, settings) THEN "imminent" ELSE "sleep"
    /\ UNCHANGED << graceCount, phoneEverSeen, shutdownPending, cancelShutdown, closed,
                    stateFile, cycleVars_noPc, cdVars, graceAtStart, triggered,
                    timerFired, cancelEarly, cancelTrue, executed, saveCalls, initialEverSeen >>
    /\ UNCHANGED extVars

\* the escalation that arms the countdown without announcing it: the status
\* stays GracePeriod
ImminentStatus_skipsStatus ==
    /\ pc = "imminent"
    /\ triggered' = TRUE
    /\ pc' = "arm"
    /\ UNCHANGED << status, cycleStatuses >>
    /\ UNCHANGED << graceCount, phoneEverSeen, shutdownPending, cancelShutdown, closed,
                    stateFile, cycleVars_noPc, cdVars, graceAtStart,
                    timerFired, cancelEarly, cancelTrue, executed, saveCalls, initialEverSeen >>
    /\ UNCHANGED extVars

\* status ShutdownImminent, then the call of triggerShutdownWithCountdown
ImminentStatus ==
    /\ pc = "imminent"
    /\ setStatus(StatusShutdownImminent)
    /\ triggered' = TRUE
    /\ pc' = "arm"
    /\ UNCHANGED << graceCount, phoneEverSeen, shutdownPending, cancelShutdown, closed,
                    stateFile, cycleVars_noPc, cdVars, graceAtStart,
                    timerFired, cancelEarly, cancelTrue, executed, saveCalls, initialEverSeen >>
    /\ UNCHANGED extVars

\* the end of a cycle: the locals of the iteration are gone, the next
\* iteration begins
EndCycle ==
    /\ pc = "sleep"
    /\ pc' = "load"
    /\ settings' = DefaultSettings
    /\ loadOK' = FALSE
    /\ ssid' = ""
    /\ checked' = FALSE
    /\ alive' = FALSE
    /\ everSeen' = FALSE
    /\ currentGrace' = 0
    /\ selCh' = NoChan
    /\ countdown' = 0
    /\ timerReady' = FALSE
    /\ tickReady' = FALSE
    /\ cycleStatuses' = << >>
    /\ graceAtStart' = graceCount
    /\ triggered' = FALSE
    /\ timerFired' = FALSE
    /\ cancelEarly' = FALSE
    /\ cancelTrue' = FALSE
    /\ executed' = FALSE
    /\ UNCHANGED << mgrVars, saveCalls, initialEverSeen >>

\* time.Sleep(PollInterval): the cycle ends, the next one begins
Sleep ==
    /\ EndCycle
    /\ UNCHANGED extVars

(* ------------------ triggerShutdownWithCountdown ----------------------- *)

\* Arm that starts the countdown in a goroutine of its own: the monitor loop
\* goes on to its sleep while the countdown is pending
Arm_async ==
    /\ pc = "arm"
    /\ shutdownPending' = TRUE
    /\ pc' = "sleep"
    /\ UNCHANGED << status, graceCount, phoneEverSeen, cancelShutdown, closed,
                    stateFile, cycleVars_noPc, cdVars, obsVars >>
    /\ UNCHANGED extVars

\* shutdownPending = true under the lock
Arm ==
    /\ pc = "arm"
    /\ shutdownPending' = TRUE
    /\ pc' = "startTimers"
    /\ UNCHANGED << status, graceCount, phoneEverSeen, cancelShutdown, closed,
                    stateFile, cycleVars_noPc, cdVars, obsVars >>
    /\ UNCHANGED extVars

\* notification, first beep, NewTimer(ShutdownDelay), NewTicker(2s),
\* countdown := ShutdownDelay - 2
StartTimers ==
    /\ pc = "startTimers"
    /\ countdown' = settings.ShutdownDelay - BeepSeconds
    /\ timerReady' = FALSE
    /\ tickReady' = FALSE
    /\ pc' = "selectEval"
    /\ UNCHANGED << mgrVars, cycleVars_noPc, selCh, obsVars >>
    /\ UNCHANGED extVars

\* entering the select statement: the channel operand s.cancelShutdown is
\* evaluated (a read of the field made without the lock)
SelectEval ==
    /\ pc = "selectEval"
    /\ selCh' = cancelShutdown
    /\ pc' = "selectPoll"
    /\ UNCHANGED << mgrVars, cycleVars_noPc, countdown, timerReady, tickReady, obsVars >>
    /\ UNCHANGED extVars

\* the select statement: one of the ready cases is chosen at random; with no
\* case ready the goroutine parks on the three channels
SelectPoll ==
    /\ pc = "selectPoll"
    /\ \/ /\ tickReady
          /\ tickReady' = FALSE
          /\ pc' = "caseBeep"
          /\ UNCHANGED timerReady
       \/ /\ timerReady
          /\ timerReady' = FALSE
          /\ pc' = "caseTimer"
          /\ UNCHANGED tickReady
       \/ /\ selCh \in closed
          /\ pc' = "caseCancel"
          /\ UNCHANGED << timerReady, tickReady >>
       \/ /\ ~tickReady /\ ~timerReady /\ selCh \notin closed
          /\ pc' = "parked"
          /\ UNCHANGED << timerReady, tickReady >>
    /\ UNCHANGED << mgrVars, cycleVars_noPc, selCh, countdown, obsVars >>
    /\ UNCHANGED extVars

\* the beep ticker delivers a tick (its channel buffers one tick)
Tick ==
    /\ pc \in TimerPcs
    /\ ~tickReady
    /\ IF pc = "parked"
       THEN pc' = "caseBeep" /\ UNCHANGED tickReady
       ELSE tickReady' = TRUE /\ UNCHANGED pc
    /\ UNCHANGED << mgrVars, cycleVars_noPc, selCh, countdown, timerReady, obsVars >>
    /\ UNCHANGED extVars

\* the shutdown timer fires, once
TimerFire ==
    /\ pc \in TimerPcs
    /\ ~timerFired
    /\ timerFired' = TRUE
    /\ IF pc = "parked"
       THEN pc' = "caseTimer" /\ UNCHANGED timerReady
       ELSE timerReady' = TRUE /\ UNCHANGED pc
    /\ UNCHANGED << mgrVars, cycleVars_noPc, selCh, countdown, tickReady,
                    cycleStatuses, graceAtStart, triggered, cancelEarly, cancelTrue,
                    executed, saveCalls, initialEverSeen >>
    /\ UNCHANGED extVars

\* case <-beepTicker.C
CaseBeep ==
    /\ pc = "caseBeep"
    /\ countdown' = IF countdown > 0 THEN countdown - BeepSeconds ELSE countdown
    /\ pc' = "selectEval"
    /\ UNCHANGED << mgrVars, cycleVars_noPc, selCh, timerReady, tickReady, obsVars >>
    /\ UNCHANGED extVars

\* the timer case that clears the flag and goes back into the select loop
\* instead of returning
CaseTimer_noReturn ==
    /\ pc = "caseTimer"
    /\ shutdownPending' = FALSE
    /\ pc' = "selectEval"
    /\ UNCHANGED << status, graceCount, phoneEverSeen, cancelShutdown, closed,
                    stateFile, cycleVars_noPc, cdVars, obsVars >>
    /\ UNCHANGED extVars

\* case <-shutdownTimer.C: shutdownPending = false under the lock
CaseTimer ==
    /\ pc = "caseTimer"
    /\ shutdownPending' = FALSE
    /\ pc' = "execute"
    /\ UNCHANGED << status, graceCount, phoneEverSeen, cancelShutdown, closed,
                    stateFile, cycleVars_noPc, cdVars, obsVars >>
    /\ UNCHANGED extVars

\* the timer case after the flag was cleared: executeShutdown was called and
\* the countdown returns to the monitor loop
ExecuteReturn ==
    /\ pc = "execute"
    /\ executed' = TRUE
    /\ pc' = "sleep"
    /\ UNCHANGED << mgrVars, cycleVars_noPc, cdVars, cycleStatuses, graceAtStart,
                    triggered, timerFired, cancelEarly, cancelTrue, saveCalls, initialEverSeen >>

\* executeShutdown(settings), then return to the monitor loop
ExecuteShutdown ==
    /\ ExecuteReturn
    /\ UNCHANGED extVars

\* case <-s.cancelShutdown: status Monitoring, return to the monitor loop
CaseCancel ==
    /\ pc = "caseCancel"
    /\ setStatus(StatusMonitoring)
    /\ pc' = "sleep"
    /\ UNCHANGED << graceCount, phoneEverSeen, shutdownPending, cancelShutdown, closed,
                    stateFile, cycleVars_noPc, cdVars, graceAtStart, triggered,
                    timerFired, cancelEarly, cancelTrue, executed, saveCalls, initialEverSeen >>
    /\ UNCHANGED extVars

(* --------------------------- CancelShutdown ---------------------------- *)

\* CancelShutdown that closes the channel and keeps it: the same, fired,
\* signal serves the next countdown
CancelShutdown_keepsChannel ==
    /\ IF shutdownPending
       THEN /\ closed' = closed \cup {cancelShutdown}
            /\ cancelShutdown' = cancelShutdown
            /\ shutdownPending' = FALSE
            /\ graceCount' = 0
            /\ pc' = IF pc = "parked" /\ selCh = cancelShutdown THEN "caseCancel" ELSE pc
            /\ cancelTrue' = TRUE
            /\ cancelEarly' = (cancelEarly \/ ~timerFired)
       ELSE UNCHANGED << closed, cancelShutdown, shutdownPending, graceCount, pc,
                            cancelTrue, cancelEarly >>
    /\ UNCHANGED << status, phoneEverSeen, stateFile, cycleVars_noPc, cdVars,
                    cycleStatuses, graceAtStart, triggered, timerFired, executed,
                    saveCalls, initialEverSeen >>
    /\ UNCHANGED extVars

\* CancelShutdown, called from the tray goroutine; the whole body runs under
\* the lock.  Closing the channel wakes a select parked on it.
CancelShutdown ==
    /\ IF shutdownPending
       THEN /\ closed' = (closed \cup {cancelShutdown})
                            \ {NewChan({cancelShutdown, selCh})}
            /\ cancelShutdown' = NewChan({cancelShutdown, selCh})
            /\ shutdownPending' = FALSE
            /\ graceCount' = 0
            /\ pc' = IF pc = "parked" /\ selCh = cancelShutdown THEN "caseCancel" ELSE pc
            /\ cancelTrue' = TRUE
            /\ cancelEarly' = (cancelEarly \/ ~timerFired)
       ELSE UNCHANGED << closed, cancelShutdown, shutdownPending, graceCount, pc,
                            cancelTrue, cancelEarly >>
    /\ UNCHANGED << status, phoneEverSeen, stateFile, cycleVars_noPc, cdVars,
                    cycleStatuses, graceAtStart, triggered, timerFired, executed,
                    saveCalls, initialEverSeen >>
    /\ UNCHANGED extVars

(* ------------- the monitor under every storable configuration ---------- *)

\* the sentinel GetCurrentSSID returns when its retries are exhausted
SSIDUnknown == "Unknown"

\* the home networks config.Update can store: a real name, the name the tray
\* reads from GetCurrentSSID while disconnected, and none
WideHomeSSIDChoices == { "HomeNet", SSIDUnknown, "" }

\* the device settings loadLocked accepts, with either detection type
WideDeviceChoices ==
    DeviceChoices \cup
    { [DetectionType |-> DetectionTypeIP, PhoneMAC |-> "", PhoneIP |-> "192.168.1.7"],
      [DetectionType |-> DetectionTypeIP, PhoneMAC |-> "aa:bb:cc:dd:ee:ff",
       PhoneIP |-> "192.168.1.7"] }

WideGraceChoices == { MinGraceChecks, 2 }

\* the settings Load can return without an error
WideSettingsChoices ==
    { [HomeSSID |-> h, DetectionType |-> d.DetectionType, PhoneMAC |-> d.PhoneMAC,
       PhoneIP |-> d.PhoneIP, IsPaused |-> p, GraceChecks |-> g, ShutdownDelay |-> sd] :
         h \in WideHomeSSIDChoices, d \in WideDeviceChoices, p \in BOOLEAN,
         g \in WideGraceChoices, sd \in DelayChoices }

\* config.Load succeeds, GetCurrentSSID is read
LoadSettingsWide == LoadSettingsFrom(WideSettingsChoices, SSIDChoices)

\* s.graceCount++ under the lock
GraceIncWide == GraceIncTo(MaxGraceWide)

NextWide ==
    \/ LoadFails
    \/ LoadSettingsWide
    \/ PausedCycle
    \/ RoamingStatus
    \/ RoamReset
    \/ NoDevice
    \/ PhoneDetected
    \/ PresentLock
    \/ SaveState
    \/ PhoneMissing
    \/ WaitingStatus
    \/ GraceIncWide
    \/ GraceStatus
    \/ ImminentStatus
    \/ Sleep
    \/ Arm
    \/ StartTimers
    \/ SelectEval
    \/ SelectPoll
    \/ Tick
    \/ TimerFire
    \/ CaseBeep
    \/ CaseTimer
    \/ ExecuteShutdown
    \/ CaseCancel
    \/ CancelShutdown

SpecWide == Init /\ [][NextWide]_vars

(* -------------------- Retry / RetryWithResult -------------------------- *)

MinDur == -(2 ^ (DurBits - 1))
MaxDur == 2 ^ (DurBits - 1) - 1

\* RetryConfig.Multiplier, a float64, as numerator and denominator
MultiplierChoices == { << 1, 2 >>, << 1, 1 >>, << 3, 2 >>, << 2, 1 >> }

\* RetryConfig.Delay: negative, zero, small, the first integer a float64
\* cannot hold, the largest Duration
RetryDelayChoices == { -1, 0, 1, 3, 2 ^ MantBits + 1, MaxDur }

\* the RetryConfig values a caller can pass
RetryConfigChoices ==
    { [MaxAttempts |-> n, Delay |-> d, Multiplier |-> m] :
        n \in 0 .. MaxAttemptsBound, d \in RetryDelayChoices, m \in MultiplierChoices }

Abs(x) == IF x < 0 THEN -x ELSE x

\* the spacing of the floats around a magnitude h: the least power of two q
\* with h / q below 2^MantBits
RECURSIVE Quantum(_, _)
Quantum(h, q) == IF h \div q < 2 ^ MantBits THEN q ELSE Quantum(h, 2 * q)

\* round-to-nearest-even of h to a multiple of q
RoundHalfEven(h, q) ==
    LET lo == (h \div q) * q
        r  == h % q
    IN  IF 2 * r > q \/ (2 * r = q /\ (h \div q) % 2 = 1) THEN lo + q ELSE lo

\* the float64 nearest to h/2 (values are counted in halves)
Float64(h) ==
    LET m == Abs(h)
        f == RoundHalfEven(m, Quantum(m, 1))
    IN  IF h < 0 THEN -f ELSE f

\* conversion of a float (in halves) to an integer: the fraction is dropped
Truncate(h) == IF h < 0 THEN -(Abs(h) \div 2) ELSE h \div 2

\* a float to integer conversion whose value does not fit: the result is
\* implementation-dependent (the smallest integer on amd64, saturation on
\* arm64)
OverflowOutcomes == { MinDur, MaxDur }

\* time.Duration(float64(delay) * config.Multiplier)
NextDelays(d, m) ==
    LET f    == Float64(2 * d)
        prod == Float64((f * m[1]) \div m[2])
        t    == Truncate(prod)
    IN  IF t \in MinDur .. MaxDur THEN { t } ELSE OverflowOutcomes

\* a caller invokes Retry or RetryWithResult: delay := config.Delay,
\* attempt := 1
RetryEnter ==
    /\ rPc = "idle"
    /\ \E k \in { "Retry", "RetryWithResult" }, c \in RetryConfigChoices :
          /\ rKind' = k
          /\ rConfig' = c
          /\ delay' = c.Delay
    /\ attempt' = 1
    /\ rPc' = "loop"
    /\ UNCHANGED << rResult, rErr, rRet, calls, sleeps, retryFrame >>

\* RetryOperation that returns the error of the first failed attempt at once
RetryOperation_noRetry ==
    /\ rPc = "loop"
    /\ attempt <= rConfig.MaxAttempts
    /\ \E ok \in BOOLEAN, v \in { 0, attempt } :
          /\ rErr' = IF ok THEN 0 ELSE attempt
          /\ rResult' = IF rKind = "RetryWithResult" THEN v ELSE 0
          /\ calls' = Append(calls, [ok |-> ok, val |-> rResult', err |-> rErr'])
          /\ rPc' = "done"
          /\ rRet' = [result |-> rResult', err |-> rErr']
    /\ UNCHANGED << rKind, rConfig, attempt, delay, sleeps, retryFrame >>

\* attempt <= MaxAttempts: result, err = operation(); on success return at
\* once.  Attempt k fails with error k or succeeds; it yields the value k or
\* the zero value.
RetryOperation ==
    /\ rPc = "loop"
    /\ attempt <= rConfig.MaxAttempts
    /\ \E ok \in BOOLEAN, v \in { 0, attempt } :
          /\ rErr' = IF ok THEN 0 ELSE attempt
          /\ rResult' = IF rKind = "RetryWithResult" THEN v ELSE 0
          /\ calls' = Append(calls, [ok |-> ok, val |-> rResult', err |-> rErr'])
          /\ IF ok
             THEN /\ rPc' = "done"
                  /\ rRet' = [result |-> rResult', err |-> 0]
             ELSE /\ rPc' = "failed"
                  /\ UNCHANGED rRet
    /\ UNCHANGED << rKind, rConfig, attempt, delay, sleeps, retryFrame >>

\* err != nil: between attempts sleep and scale the delay; attempt++
RetryFailed ==
    /\ rPc = "failed"
    /\ IF attempt < rConfig.MaxAttempts
       THEN /\ sleeps' = Append(sleeps, delay)
            /\ delay' \in NextDelays(delay, rConfig.Multiplier)
       ELSE UNCHANGED << sleeps, delay >>
    /\ attempt' = attempt + 1
    /\ rPc' = "loop"
    /\ UNCHANGED << rKind, rConfig, rResult, rErr, rRet, calls, retryFrame >>

\* the loop is over: return result, err
RetryExhausted ==
    /\ rPc = "loop"
    /\ attempt > rConfig.MaxAttempts
    /\ rRet' = [result |-> rResult, err |-> rErr]
    /\ rPc' = "done"
    /\ UNCHANGED << rKind, rConfig, attempt, delay, rResult, rErr, calls, sleeps,
                    retryFrame >>

NextRetry ==
    \/ RetryEnter
    \/ RetryOperation
    \/ RetryFailed
    \/ RetryExhausted

\* one call of Retry or RetryWithResult, the monitor not running
InitRetry == SentryInit /\ stateFile = "missing" /\ ExtIdle

SpecRetry == InitRetry /\ [][NextRetry]_vars

(* ----------------------- network.IsDeviceOnNetwork --------------------- *)

\* the devices of the home network: the phone and another host, with the
\* address each has in the output of arp -a (lower case, dashes)
Phone     == [mac |-> MacText("aabbccddeeff", FALSE, "-"), ip |-> "192.168.1.7"]
OtherHost == [mac |-> MacText("112233445566", FALSE, "-"), ip |-> "192.168.1.9"]
Devices   == { Phone, OtherHost }

\* the spellings of the phone's address a caller can pass
MacArgChoices ==
    { MacText("aabbccddeeff", u, sp) : u \in BOOLEAN, sp \in { ":", "-" } }

\* strings.ToLower, then strings.ReplaceAll(mac, ":", "-")
NormalizeMAC(m) == MacText(m.hex, FALSE, "-")

\* the lines of arp -a that name the address
EntriesFor(table, m) == { e \in table : e.mac = m }

\* FindIPByMAC on a table
FindIPByMAC(table, m) ==
    IF EntriesFor(table, m) = {} THEN ""
    ELSE (CHOOSE e \in EntriesFor(table, m) : TRUE).ip

\* the device the call asks about is on the network
DevicePresent == \E d \in onNet : d.mac = NormalizeMAC(aMac)

\* the monitor calls IsDeviceOnNetwork(mac).  The neighbor table holds entries
\* of hosts seen earlier, present or gone.
ArpEnter ==
    /\ aPc = "idle"
    /\ \E m \in MacArgChoices, t \in SUBSET Devices, n \in SUBSET Devices :
          /\ aMac' = m
          /\ arpTable' = t
          /\ onNet' = n
          /\ hadEntry' = (EntriesFor(t, NormalizeMAC(m)) # {})
    /\ aPc' = "normalize"
    /\ UNCHANGED << lastKnownIP, aRet, evictOK, arpFrame >>

\* mac = strings.ToLower(mac); mac = strings.ReplaceAll(mac, ":", "-")
ArpNormalize ==
    /\ aPc = "normalize"
    /\ aMac' = NormalizeMAC(aMac)
    /\ aPc' = "find"
    /\ UNCHANGED << lastKnownIP, aRet, arpTable, onNet, hadEntry, evictOK, arpFrame >>

\* lastKnownIP := FindIPByMAC(mac); arp -a may fail, which yields ""
ArpFind ==
    /\ aPc = "find"
    /\ lastKnownIP' \in { FindIPByMAC(arpTable, aMac), "" }
    /\ aPc' = IF lastKnownIP' # "" THEN "delete" ELSE "sweep"
    /\ UNCHANGED << aMac, aRet, arpTable, onNet, hadEntry, evictOK, arpFrame >>

\* deleteARPEntry(lastKnownIP): arp -d removes the entry, or fails (it needs
\* administrator rights) and the error is ignored
ArpDelete ==
    /\ aPc = "delete"
    /\ \E ok \in BOOLEAN :
          /\ evictOK' = ok
          /\ arpTable' = IF ok THEN { e \in arpTable : e.ip # lastKnownIP }
                               ELSE arpTable
    /\ aPc' = "ping"
    /\ UNCHANGED << aMac, lastKnownIP, aRet, onNet, hadEntry, arpFrame >>

\* PingHostWithTimeout(lastKnownIP, 500): a host that is on the network
\* answers and gets a fresh entry; no answer leaves the table as it is
ArpPing ==
    /\ aPc = "ping"
    /\ arpTable' = arpTable \cup { d \in onNet : d.ip = lastKnownIP }
    /\ aPc' = "check"
    /\ UNCHANGED << aMac, lastKnownIP, aRet, onNet, hadEntry, evictOK, arpFrame >>

\* no cached IP: pingSweep over the subnet (skipped when getLocalIP fails);
\* every host that answers gets an entry
ArpSweep ==
    /\ aPc = "sweep"
    /\ arpTable' \in { arpTable \cup onNet, arpTable }
    /\ aPc' = "check"
    /\ UNCHANGED << aMac, lastKnownIP, aRet, onNet, hadEntry, evictOK, arpFrame >>

\* return checkARPForMAC(mac): false when arp -a fails, else whether the
\* output contains the address
ArpCheck ==
    /\ aPc = "check"
    /\ aRet' \in { EntriesFor(arpTable, aMac) # {}, FALSE }
    /\ aPc' = "done"
    /\ UNCHANGED << aMac, lastKnownIP, arpTable, onNet, hadEntry, evictOK, arpFrame >>

NextArp ==
    \/ ArpEnter
    \/ ArpNormalize
    \/ ArpFind
    \/ ArpDelete
    \/ ArpPing
    \/ ArpSweep
    \/ ArpCheck

\* one call of IsDeviceOnNetwork, the monitor not running
InitArp == SentryInit /\ stateFile = "missing" /\ ExtIdle

SpecArp == InitArp /\ [][NextArp]_vars

(* ------------- the manager's methods, statement by statement ----------- *)

\* the fields the specification calls MonitorState
MonitorStateFields ==
    { "status", "graceCount", "phoneEverSeen", "shutdownPending", "cancelShutdown" }

\* one statement: s.mu.Lock(), s.mu.Unlock(), a read or a write of a field,
\* or the call of the callback.  val is what a write stores ("arg": the
\* parameter); when tells under which value of the branch condition read
\* before the statement is executed.
Stmt(op, field, val, when) == [op |-> op, field |-> field, val |-> val, when |-> when]
LockStmt    == Stmt("lock", "", "", "always")
UnlockStmt  == Stmt("unlock", "", "", "always")
Read(field) == Stmt("read", field, "", "always")
Write(field, val) == Stmt("write", field, val, "always")

\* setStatus with the callback called before the mutex is released
setStatusCode_cbUnderLock ==
    << LockStmt, Write("status", "arg"), Read("StatusCallback"),
       Stmt("callcb", "", "", "always"), UnlockStmt >>

\* setStatus: lock, s.status = status, cb := s.StatusCallback, unlock,
\* if cb != nil { cb(status) }
setStatusCode ==
    << LockStmt, Write("status", "arg"), Read("StatusCallback"), UnlockStmt,
       Stmt("callcb", "", "", "always") >>

\* SetStatusCallback: lock, s.StatusCallback = cb, (deferred) unlock
SetStatusCallbackCode ==
    << LockStmt, Write("StatusCallback", "arg"), UnlockStmt >>

\* CancelShutdown that closes and replaces the channel and resets the
\* counters whether or not a shutdown is pending
CancelShutdownCode_unconditional ==
    << LockStmt, Read("shutdownPending"),
       Read("cancelShutdown"),
       Write("cancelShutdown", ""),
       Write("shutdownPending", "false"),
       Write("graceCount", ""),
       UnlockStmt >>

\* CancelShutdown: lock; if s.shutdownPending { close(s.cancelShutdown);
\* s.cancelShutdown = make(...); s.shutdownPending = false;
\* s.graceCount = 0 }; (deferred) unlock
CancelShutdownCode ==
    << LockStmt, Read("shutdownPending"),
       Stmt("read", "cancelShutdown", "", "flag"),
       Stmt("write", "cancelShutdown", "", "flag"),
       Stmt("write", "shutdownPending", "false", "flag"),
       Stmt("write", "graceCount", "", "flag"),
       UnlockStmt >>

\* IsShutdownPending: lock, return s.shutdownPending, (deferred) unlock
IsShutdownPendingCode == << LockStmt, Read("shutdownPending"), UnlockStmt >>

\* saveState: state := SentryState{PhoneEverSeen: s.phoneEverSeen}
saveStateCode == << Read("phoneEverSeen") >>

\* StartMonitor, phone detected: lock, s.graceCount = 0,
\* everSeen := s.phoneEverSeen, if !everSeen { s.phoneEverSeen = true }, unlock
presentCode ==
    << LockStmt, Write("graceCount", ""), Read("phoneEverSeen"),
       Stmt("write", "phoneEverSeen", "true", "notflag"), UnlockStmt >>

\* StartMonitor, phone missing: lock, everSeen := s.phoneEverSeen, unlock
missingCode == << LockStmt, Read("phoneEverSeen"), UnlockStmt >>

\* StartMonitor: lock, s.graceCount++, currentGrace := s.graceCount, unlock
graceIncCode ==
    << LockStmt, Read("graceCount"), Write("graceCount", ""), Read("graceCount"),
       UnlockStmt >>

\* StartMonitor, not at home: lock, s.graceCount = 0, unlock
roamResetCode == << LockStmt, Write("graceCount", ""), UnlockStmt >>

\* triggerShutdownWithCountdown: lock, s.shutdownPending = true, unlock
armCode == << LockStmt, Write("shutdownPending", "true"), UnlockStmt >>

\* the select statement: its operand s.cancelShutdown is evaluated
selectCode == << Read("cancelShutdown") >>

\* case <-shutdownTimer.C: lock, s.shutdownPending = false, unlock
timerCaseCode == << LockStmt, Write("shutdownPending", "false"), UnlockStmt >>

\* the statements of a method or of a critical section of StartMonitor
Code(fn) ==
    CASE fn = "setStatus"         -> setStatusCode
      [] fn = "SetStatusCallback" -> SetStatusCallbackCode
      [] fn = "CancelShutdown"    -> CancelShutdownCode
      [] fn = "IsShutdownPending" -> IsShutdownPendingCode
      [] fn = "saveState"         -> saveStateCode
      [] fn = "present"           -> presentCode
      [] fn = "missing"           -> missingCode
      [] fn = "graceInc"          -> graceIncCode
      [] fn = "roamReset"         -> roamResetCode
      [] fn = "arm"               -> armCode
      [] fn = "select"            -> selectCode
      [] fn = "timerCase"         -> timerCaseCode

\* a call in progress: the method, the next statement, the parameter, the
\* branch condition read last, the local cb, and what was done with it
Frame(fn, arg) ==
    [fn |-> fn, ip |-> 1, arg |-> arg, flag |-> FALSE, cb |-> "nil",
     cbCount |-> 0, cbArg |-> "", cbHeld |-> FALSE]

\* the call sites of StartMonitor and triggerShutdownWithCountdown
NodeCall(node) ==
    CASE node = "paused"     -> Frame("setStatus", StatusPaused)
      [] node = "roaming"    -> Frame("setStatus", StatusRoaming)
      [] node = "roamReset"  -> Frame("roamReset", "")
      [] node = "noDevice"   -> Frame("setStatus", StatusRoaming)
      [] node = "monitoring" -> Frame("setStatus", StatusMonitoring)
      [] node = "present"    -> Frame("present", "")
      [] node = "save"       -> Frame("saveState", "")
      [] node = "missing"    -> Frame("missing", "")
      [] node = "waiting"    -> Frame("setStatus", StatusWaitingForPhone)
      [] node = "graceInc"   -> Frame("graceInc", "")
      [] node = "grace"      -> Frame("setStatus", StatusGracePeriod)
      [] node = "imminent"   -> Frame("setStatus", StatusShutdownImminent)
      [] node = "arm"        -> Frame("arm", "")
      [] node = "select"     -> Frame("select", "")
      [] node = "timerCase"  -> Frame("timerCase", "")
      [] node = "cancelled"  -> Frame("setStatus", StatusMonitoring)

\* the first call site of a polling cycle: paused, not at home, no device,
\* phone detected, phone missing
EntryNodes == { "paused", "roaming", "noDevice", "monitoring", "missing" }

\* the call site that follows `node`; flag is the everSeen the section read,
\* pending the value of s.shutdownPending (false once a cancel closed the
\* channel the select waits on)
NextPos(node, flag, pending) ==
    CASE node = "roaming"    -> { "roamReset" }
      [] node = "monitoring" -> { "present" }
      [] node = "present"    -> IF flag THEN EntryNodes ELSE { "save" }
      [] node = "missing"    -> IF flag THEN { "graceInc" } ELSE { "waiting" }
      [] node = "graceInc"   -> { "grace" }
      [] node = "grace"      -> EntryNodes \cup { "imminent" }
      [] node = "imminent"   -> { "arm" }
      [] node = "arm"        -> { "select" }
      [] node = "select"     -> { "select", "timerCase" } \cup
                                (IF pending THEN {} ELSE { "cancelled" })
      [] OTHER               -> EntryNodes

\* what the tray goroutine calls
TrayCalls ==
    { Frame("CancelShutdown", ""), Frame("IsShutdownPending", ""),
      Frame("SetStatusCallback", "cb"), Frame("SetStatusCallback", "nil") }

\* what a status callback may call back into the manager
CallbackCalls ==
    { Frame("IsShutdownPending", ""), Frame("CancelShutdown", ""),
      Frame("SetStatusCallback", "cb") }

Top(t) == stacks[t][Len(stacks[t])]

\* goroutine t is inside a call and has a statement left to execute
Running(t) == stacks[t] # << >> /\ Top(t).ip <= Len(Code(Top(t).fn))

NextStmt(t) == Code(Top(t).fn)[Top(t).ip]

\* the branch the statement belongs to is the one taken
Taken(t) ==
    \/ NextStmt(t).when = "always"
    \/ NextStmt(t).when = "flag" /\ Top(t).flag
    \/ NextStmt(t).when = "notflag" /\ ~Top(t).flag

SetTop(t, f) == [stacks EXCEPT ![t] = [@ EXCEPT ![Len(@)] = f]]

\* s.mu.Lock(): proceeds only when the mutex is free
LkLock ==
    \E t \in LkThreads :
        /\ Running(t) /\ Taken(t)
        /\ NextStmt(t).op = "lock"
        /\ mu = "free"
        /\ mu' = t
        /\ stacks' = SetTop(t, [Top(t) EXCEPT !.ip = @ + 1])
        /\ UNCHANGED << lkFields, lkPos, lkAccess, lockFrame >>

\* s.mu.Unlock()
LkUnlock ==
    \E t \in LkThreads :
        /\ Running(t) /\ Taken(t)
        /\ NextStmt(t).op = "unlock"
        /\ mu' = "free"
        /\ stacks' = SetTop(t, [Top(t) EXCEPT !.ip = @ + 1])
        /\ UNCHANGED << lkFields, lkPos, lkAccess, lockFrame >>

\* the value a write stores
Stored(st, f) ==
    CASE st.val = "arg"   -> f.arg
      [] st.val = "true"  -> TRUE
      [] st.val = "false" -> FALSE

\* a read or a write of a field of the manager
LkFieldAccess ==
    \E t \in LkThreads :
        LET st == NextStmt(t)
            f  == Top(t)
        IN  /\ Running(t) /\ Taken(t)
            /\ st.op \in { "read", "write" }
            /\ lkAccess' = [lkAccess EXCEPT ![t] =
                              [fn |-> f.fn, field |-> st.field, op |-> st.op,
                               held |-> (mu = t)]]
            /\ lkFields' = IF st.op = "write" /\ st.val # ""
                           THEN [lkFields EXCEPT ![st.field] = Stored(st, f)]
                           ELSE lkFields
            /\ stacks' = SetTop(t,
                 [f EXCEPT !.ip = @ + 1,
                           !.cb = IF st.op = "read" /\ st.field = "StatusCallback"
                                  THEN lkFields.StatusCallback ELSE @,
                           !.flag = IF st.op = "read" /\
                                       st.field \in { "shutdownPending", "phoneEverSeen" }
                                    THEN lkFields[st.field] ELSE @])
            /\ UNCHANGED << mu, lkPos, lockFrame >>

\* a statement of the branch not taken is passed over
LkSkip ==
    \E t \in LkThreads :
        /\ Running(t) /\ ~Taken(t)
        /\ stacks' = SetTop(t, [Top(t) EXCEPT !.ip = @ + 1])
        /\ UNCHANGED << mu, lkFields, lkPos, lkAccess, lockFrame >>

\* if cb != nil { cb(status) }: the callback runs in the caller's goroutine
\* and may call back into the manager, or not
LkInvokeCallback ==
    \E t \in LkThreads :
        LET f == Top(t)
        IN  /\ Running(t) /\ Taken(t)
            /\ NextStmt(t).op = "callcb"
            /\ IF f.cb # "nil"
               THEN LET g == [f EXCEPT !.ip = @ + 1, !.cbCount = @ + 1,
                                       !.cbArg = f.arg, !.cbHeld = (mu = t)]
                    IN  \/ stacks' = SetTop(t, g)
                        \/ \E c \in CallbackCalls :
                              stacks' = [SetTop(t, g) EXCEPT ![t] = Append(@, c)]
               ELSE stacks' = SetTop(t, [f EXCEPT !.ip = @ + 1])
            /\ UNCHANGED << mu, lkFields, lkPos, lkAccess, lockFrame >>

\* the call returns; the monitor moves on to its next call site
LkReturn ==
    \E t \in LkThreads :
        /\ stacks[t] # << >>
        /\ ~Running(t)
        /\ stacks' = [stacks EXCEPT ![t] = SubSeq(@, 1, Len(@) - 1)]
        /\ IF t = "monitor" /\ Len(stacks[t]) = 1
           THEN lkPos' \in NextPos(lkPos, Top(t).flag, lkFields.shutdownPending)
           ELSE UNCHANGED lkPos
        /\ UNCHANGED << mu, lkFields, lkAccess, lockFrame >>

\* the monitor goroutine reaches its next call site
LkMonitorCall ==
    /\ stacks["monitor"] = << >>
    /\ stacks' = [stacks EXCEPT !["monitor"] = << NodeCall(lkPos) >>]
    /\ UNCHANGED << mu, lkFields, lkPos, lkAccess, lockFrame >>

\* the tray goroutine calls a method of the manager
LkTrayCall ==
    /\ stacks["tray"] = << >>
    /\ \E c \in TrayCalls : stacks' = [stacks EXCEPT !["tray"] = << c >>]
    /\ UNCHANGED << mu, lkFields, lkPos, lkAccess, lockFrame >>

NextLock ==
    \/ LkLock
    \/ LkUnlock
    \/ LkFieldAccess
    \/ LkSkip
    \/ LkInvokeCallback
    \/ LkReturn
    \/ LkMonitorCall
    \/ LkTrayCall

\* the manager after construction, with or without a registered callback and
\* with either persisted flag; the monitor at the first call site of a cycle
InitLock ==
    /\ SentryInit /\ stateFile = "missing" /\ RetryIdle /\ ArpIdle
    /\ HostIdle /\ CfgIdle /\ NtfyIdle
    /\ mu = "free"
    /\ stacks = [t \in LkThreads |-> << >>]
    /\ lkFields \in { [status |-> StatusRoaming, StatusCallback |-> c,
                       shutdownPending |-> FALSE, phoneEverSeen |-> b] :
                         c \in { "cb", "nil" }, b \in BOOLEAN }
    /\ lkPos \in EntryNodes
    /\ lkAccess = [t \in LkThreads |-> NoAccess]

SpecLock == InitLock /\ [][NextLock]_vars

(* ------------------------------ Next ----------------------------------- *)

Next ==
    \/ LoadFails
    \/ LoadSettings
    \/ PausedCycle
    \/ RoamingStatus
    \/ RoamReset
    \/ NoDevice
    \/ PhoneDetected
    \/ PresentLock
    \/ SaveState
    \/ PhoneMissing
    \/ WaitingStatus
    \/ GraceInc
    \/ GraceStatus
    \/ ImminentStatus
    \/ Sleep
    \/ Arm
    \/ StartTimers
    \/ SelectEval
    \/ SelectPoll
    \/ Tick
    \/ TimerFire
    \/ CaseBeep
    \/ CaseTimer
    \/ ExecuteShutdown
    \/ CaseCancel
    \/ CancelShutdown

Spec == Init /\ [][Next]_vars

TypeOK ==
    /\ status \in SentryStatus
    /\ graceCount \in 0 .. MaxGrace
    /\ phoneEverSeen \in BOOLEAN
    /\ shutdownPending \in BOOLEAN
    /\ cancelShutdown \in ChanIds
    /\ closed \subseteq ChanIds
    /\ selCh \in ChanIds \cup {NoChan}

(* ------------------------------ claims --------------------------------- *)

\* the value a CancelShutdown call made in the current state returns
CancelShutdownResult == shutdownPending

\* a countdown (a run of triggerShutdownWithCountdown) is in progress
CountdownActive == pc \in CountdownPcs

\* C1: a CancelShutdown issued after the countdown was armed and before the
\* shutdown timer fires always ends that countdown as Cancelled:
\* executeShutdown is never invoked for a countdown that was cancelled
\* before its timer fired.
C1_CancelBeforeTimerWins == cancelEarly => ~executed

\* C2: CancelShutdown returns true iff a countdown was active at the call and
\* is now cancelled: it can return true only while a countdown is active,
\* and once it has returned true the protective action of that countdown is
\* never executed.
C2_CancelTrueIffCancelled ==
    /\ CancelShutdownResult => CountdownActive
    /\ cancelTrue => ~executed

\* C10: a CancelShutdown that returned true during a countdown leaves
\* shutdownPending false and graceCount 0 until the cycle ends, and the
\* status has been set to Monitoring before the next polling cycle begins.
C10_CancelRestoresMonitoring ==
    cancelTrue =>
        /\ ~shutdownPending
        /\ graceCount = 0
        /\ pc = "sleep" => status = StatusMonitoring

\* the conditions of the cycle under which the code escalates
FailedCheckAtHome ==
    /\ loadOK
    /\ ~settings.IsPaused
    /\ OnHomeNetwork(ssid, settings)
    /\ HasDeviceConfigured(settings)
    /\ checked
    /\ ~alive

\* the cycle has run to its end, or is inside the countdown it started
CycleDecided == pc = "sleep" \/ CountdownActive

\* C3: in any polling cycle the Countdown Controller is invoked if and only
\* if the cycle is not paused, is on the home network, has a device
\* configured, its presence check failed, phoneEverSeen is true and the
\* incremented graceCount has reached the configured threshold (whatever
\* threshold the configuration holds: 1, 3, 5 or 100).
C3_EscalationIff ==
    CycleDecided =>
        (triggered <=> /\ FailedCheckAtHome
                       /\ phoneEverSeen
                       /\ currentGrace >= settings.GraceChecks)

\* C3 witness: an escalation at the largest threshold, reached at exactly
\* the 100th failed check
C3_Witness ==
    /\ triggered
    /\ settings.GraceChecks = MaxGraceChecks
    /\ currentGrace = MaxGraceChecks
    /\ pc = "arm"

\* a step of CancelShutdown that found a countdown pending: the pending flag
\* is cleared and the cancel channel is closed and replaced
CancelStep ==
    /\ shutdownPending /\ ~shutdownPending'
    /\ cancelShutdown' # cancelShutdown
    /\ cancelShutdown \in closed'

\* C4: graceCount changes only by +1 in a failed presence check made on the
\* home network with phoneEverSeen true, or to 0 by a cycle off the home
\* network, by a successful presence check or by a cancellation; no other
\* step modifies it, and it is never negative.
C4_GraceCountChanges ==
    /\ [][ graceCount' # graceCount =>
            \/ /\ graceCount' = graceCount + 1
               /\ pc = "graceInc"
               /\ FailedCheckAtHome
               /\ phoneEverSeen
            \/ /\ graceCount' = 0
               /\ pc = "roamReset"
               /\ ~OnHomeNetwork(ssid, settings)
            \/ /\ graceCount' = 0
               /\ pc = "presentLock"
               /\ checked /\ alive
            \/ /\ graceCount' = 0
               /\ CancelStep ]_vars
    /\ [](graceCount >= 0)

\* C4 witness: a count that failed checks had raised was cleared by a cancel
C4_Witness == cancelTrue /\ currentGrace > 1 /\ graceCount = 0

\* C5 (as stated): whenever the network name read by a cycle does not match
\* the home network while graceCount > 0, status is Roaming and graceCount
\* is 0 by the end of that cycle.
C5_LeavingHomeResets ==
    (pc = "sleep" /\ loadOK /\ ~OnHomeNetwork(ssid, settings) /\ graceAtStart > 0)
        => (status = StatusRoaming /\ graceCount = 0)

\* C5 (amended): whenever a cycle that is not paused reads a network name
\* that does not match the home network, status is Roaming and graceCount
\* is 0 by the end of that cycle.
C5_LeavingHomeResetsUnlessPaused ==
    (pc = "sleep" /\ loadOK /\ ~settings.IsPaused /\ ~OnHomeNetwork(ssid, settings))
        => (status = StatusRoaming /\ graceCount = 0)

\* C5 witness: a cycle off the home network cleared a positive grace count
C5_Witness ==
    /\ pc = "sleep" /\ loadOK /\ ~settings.IsPaused
    /\ ~OnHomeNetwork(ssid, settings)
    /\ graceAtStart > 0 /\ graceCount = 0 /\ status = StatusRoaming

\* the statuses set in this cycle, as a set
StatusesSet == { cycleStatuses[i] : i \in 1 .. Len(cycleStatuses) }

\* a step that calls setStatus(StatusWaitingForPhone)
SetsWaiting ==
    /\ Len(cycleStatuses') = Len(cycleStatuses) + 1
    /\ cycleStatuses'[Len(cycleStatuses')] = StatusWaitingForPhone

\* C6: a polling cycle sets status WaitingForPhone if and only if
\* phoneEverSeen is false and its presence check on the home network
\* failed; once the phone has been seen the flag stays true and no step
\* sets WaitingForPhone again.
C6_WaitingIffNeverSeen ==
    /\ [](pc = "sleep" =>
            (StatusWaitingForPhone \in StatusesSet
                <=> (FailedCheckAtHome /\ ~phoneEverSeen)))
    /\ [][ (phoneEverSeen \/ (checked /\ alive)) =>
                (~SetsWaiting /\ (phoneEverSeen => phoneEverSeen')) ]_vars
    /\ [](phoneEverSeen => status # StatusWaitingForPhone)

\* C6 witness: a cycle that ended in WaitingForPhone
C6_Witness ==
    /\ pc = "sleep" /\ status = StatusWaitingForPhone
    /\ FailedCheckAtHome /\ ~phoneEverSeen

\* C7: phoneEverSeen never goes from true to false, and saveState is called
\* exactly once, in the first cycle whose presence check succeeds while
\* phoneEverSeen was false: never when the manager started with the flag
\* true, never on a later successful check.
C7_PersistedExactlyOnce ==
    /\ [][ phoneEverSeen => phoneEverSeen' ]_vars
    /\ [][ saveCalls' # saveCalls =>
              /\ saveCalls = 0 /\ saveCalls' = 1
              /\ checked /\ alive /\ ~everSeen /\ ~initialEverSeen ]_vars
    /\ [](saveCalls =
            IF phoneEverSeen /\ ~initialEverSeen /\ pc # "save" THEN 1 ELSE 0)

\* C7 witness: a later successful check, after the flag was persisted, that
\* wrote nothing
C7_Witness ==
    /\ pc = "sleep" /\ checked /\ alive /\ everSeen
    /\ ~initialEverSeen /\ saveCalls = 1

\* C8: while phoneEverSeen is false graceCount is 0 and no countdown is
\* started, and a failed presence check on the home network ends the cycle
\* in WaitingForPhone.
C8_NoGraceBeforeSeen ==
    ~phoneEverSeen =>
        /\ graceCount = 0
        /\ ~triggered
        /\ ~shutdownPending
        /\ (pc = "sleep" /\ FailedCheckAtHome) => status = StatusWaitingForPhone

\* C8 witness: a second failed check in a row while the phone was never seen
C8_Witness ==
    /\ ~phoneEverSeen /\ pc = "waiting" /\ FailedCheckAtHome
    /\ status = StatusWaitingForPhone
    /\ graceAtStart = 0 /\ graceCount = 0

\* a failed presence check at home, phone seen before, threshold 3
ScenarioC == FailedCheckAtHome /\ everSeen /\ settings.GraceChecks = 3

\* C9 (as stated): with threshold 3 and graceCount 0, three failed checks
\* in a row set GracePeriod (count 1), GracePeriod (count 2), then, in the
\* third cycle, ShutdownImminent, and the countdown starts.
C9_ScenarioStatuses ==
    /\ (pc = "sleep" /\ ScenarioC /\ graceAtStart \in {0, 1}) =>
            /\ cycleStatuses = << StatusGracePeriod >>
            /\ graceCount = graceAtStart + 1
            /\ ~triggered
    /\ (pc = "arm" /\ ScenarioC /\ graceAtStart = 2) =>
            /\ cycleStatuses = << StatusShutdownImminent >>
            /\ graceCount = 3
    /\ (pc = "sleep" /\ ScenarioC /\ graceAtStart = 2) => triggered

\* C9 (amended): the third cycle sets GracePeriod (count 3) and then
\* ShutdownImminent before the countdown starts.
C9_ScenarioStatusesWithThirdGrace ==
    /\ (pc = "sleep" /\ ScenarioC /\ graceAtStart \in {0, 1}) =>
            /\ cycleStatuses = << StatusGracePeriod >>
            /\ graceCount = graceAtStart + 1
            /\ ~triggered
    /\ (pc = "arm" /\ ScenarioC /\ graceAtStart = 2) =>
            /\ cycleStatuses = << StatusGracePeriod, StatusShutdownImminent >>
            /\ graceCount = 3
    /\ (pc = "sleep" /\ ScenarioC /\ graceAtStart = 2) => triggered

\* C9 witness: the third failed check has started the countdown
C9_Witness ==
    /\ pc = "arm" /\ ScenarioC /\ graceAtStart = 2 /\ graceCount = 3
    /\ status = StatusShutdownImminent

\* the positions at which the countdown is armed and has not yet ended: it
\* ends as Cancelled when the cancel case is taken and as Executed when the
\* timer case has cleared the flag
ArmedPcs == { "startTimers", "selectEval", "selectPoll", "parked", "caseBeep",
              "caseTimer" }

\* the value IsShutdownPending returns in the current state
IsShutdownPending == shutdownPending

\* the select already holds the closed channel: the cancel case is ready and
\* the run is about to end as Cancelled
CancelReadyInSelect == pc = "selectPoll" /\ selCh \in closed

\* a countdown run is active: armed, not ended, its cancellation not ready
CountdownRunActive == pc \in ArmedPcs /\ ~CancelReadyInSelect

\* C11: in every reachable state IsShutdownPending is true if and only if a
\* countdown run is active: armed and not yet ended as Cancelled or Executed.
C11_PendingIffCountdownActive == IsShutdownPending <=> CountdownRunActive

\* the cycle that is ending failed to load its configuration
LoadFailedCycle == pc = "sleep" /\ ~loadOK

\* C13: a polling cycle whose configuration load fails performs no presence
\* check, sets no status, starts no countdown and leaves status, graceCount,
\* phoneEverSeen and shutdownPending unchanged; it only sleeps one interval
\* and begins the next cycle.
C13_LoadFailureFrame ==
    [][ /\ (pc = "load" /\ pc' # "load" /\ ~loadOK') =>
              /\ pc' = "sleep"
              /\ UNCHANGED << status, graceCount, phoneEverSeen, shutdownPending,
                              checked, triggered, cycleStatuses >>
        /\ LoadFailedCycle' =>
              /\ ~checked' /\ ~triggered' /\ ~shutdownPending'
              /\ cycleStatuses' = << >>
              /\ graceCount' = graceAtStart'
        /\ (LoadFailedCycle /\ pc' # pc) =>
              /\ pc' = "load"
              /\ UNCHANGED << status, graceCount, phoneEverSeen, shutdownPending >>
      ]_vars

\* a failed load in the middle of a grace period: the count is kept
C13_Witness ==
    /\ LoadFailedCycle
    /\ graceCount > 0
    /\ status = StatusGracePeriod

\* the cycle that is ending found the configuration paused
PausedCycleEnding == pc = "sleep" /\ loadOK /\ settings.IsPaused

\* C14: a polling cycle whose configuration reports paused sets status
\* Paused, performs no presence check, starts no countdown and leaves
\* graceCount, phoneEverSeen and shutdownPending unchanged.
C14_PausedFrame ==
    [][ /\ (pc = "load" /\ loadOK' /\ settings'.IsPaused) =>
              /\ pc' = "paused"
              /\ UNCHANGED << status, graceCount, phoneEverSeen, shutdownPending,
                              checked, triggered >>
        /\ (pc = "paused" /\ pc' # pc) =>
              /\ pc' = "sleep"
              /\ status' = StatusPaused
              /\ UNCHANGED << graceCount, phoneEverSeen, shutdownPending,
                              checked, triggered >>
        /\ PausedCycleEnding' =>
              /\ status' = StatusPaused
              /\ cycleStatuses' = << StatusPaused >>
              /\ ~checked' /\ ~triggered' /\ ~shutdownPending'
              /\ graceCount' = graceAtStart'
      ]_vars

\* a paused cycle in the middle of a grace period, on the home network with
\* a device configured: the count is kept and no check is made
C14_Witness ==
    /\ PausedCycleEnding
    /\ graceCount > 0
    /\ OnHomeNetwork(ssid, settings)
    /\ HasDeviceConfigured(settings)
    /\ status = StatusPaused

\* the outcome of the latest invocation of operation
LastCall == calls[Len(calls)]

\* a call of Retry or RetryWithResult with MaxAttempts >= 1 has returned
RetryReturned == rPc = "done" /\ rConfig.MaxAttempts >= 1

\* C17: Retry and RetryWithResult with maxAttempts = n >= 1 invoke the
\* operation at most n times, stop at the first success and return its value
\* at once, and, if all n attempts fail, return the failure of the n-th
\* attempt, for every sequence of per-attempt outcomes.
C17_RetryOutcome ==
    /\ rConfig.MaxAttempts >= 1 => Len(calls) <= rConfig.MaxAttempts
    /\ \A i \in 1 .. Len(calls) - 1 : ~calls[i].ok
    /\ (Len(calls) > 0 /\ LastCall.ok) =>
          /\ rPc = "done"
          /\ rRet = [result |-> LastCall.val, err |-> 0]
    /\ (RetryReturned /\ ~LastCall.ok) =>
          /\ Len(calls) = rConfig.MaxAttempts
          /\ rRet.err = LastCall.err
          /\ rRet.err = rConfig.MaxAttempts
          /\ rRet.err # 0

\* all three attempts of a RetryWithResult failed: the third failure is
\* returned
C17_Witness ==
    /\ RetryReturned
    /\ rKind = "RetryWithResult"
    /\ rConfig.MaxAttempts = 3
    /\ Len(calls) = 3
    /\ rRet.err = 3

\* what time.Sleep(d) waits: nothing for d <= 0
SleepLength(d) == IF d > 0 THEN d ELSE 0

\* C18: the retry executor sleeps only between attempts: k-1 sleeps when the
\* operation first succeeds on attempt k, n-1 when all n attempts fail, and
\* with backoffMultiplier >= 1 every sleep is at least as long as the one
\* before it.
C18_SleepsBetweenAttempts ==
    /\ (RetryReturned /\ LastCall.ok) => Len(sleeps) = Len(calls) - 1
    /\ (RetryReturned /\ ~LastCall.ok) => Len(sleeps) = rConfig.MaxAttempts - 1
    /\ rConfig.Multiplier[1] >= rConfig.Multiplier[2] =>
          \A i \in 2 .. Len(sleeps) :
              SleepLength(sleeps[i]) >= SleepLength(sleeps[i - 1])

\* C12: a polling cycle that obtains the sentinel from GetCurrentSSID is never
\* treated as being on the home network (no presence check, no graceCount
\* increment, no escalation), whatever home network the configuration
\* operations stored; an empty configured home network never counts as home.
C12_SentinelNeverHome ==
    (loadOK /\ (ssid = SSIDUnknown \/ settings.HomeSSID = "")) =>
        /\ ~checked
        /\ ~triggered
        /\ graceCount <= graceAtStart

\* C15: a presence check is made only when a link-layer address is
\* configured, and an unpaused cycle on the home network with no link address
\* configured sets status Roaming, whatever the detection type or IP address.
C15_LinkLayerOnly ==
    /\ checked => settings.PhoneMAC # ""
    /\ ( /\ pc = "sleep" /\ loadOK /\ ~settings.IsPaused
         /\ OnHomeNetwork(ssid, settings)
         /\ settings.PhoneMAC = "" ) => cycleStatuses = << StatusRoaming >>

\* C16: IsDeviceOnNetwork never reports present on the strength of a stale
\* cache entry: when the device has left the network the call returns false,
\* even if the neighbor table held an entry for its address when the call
\* began, whether or not the eviction command succeeds.
C16_NoStalePresence == (aPc = "done" /\ ~DevicePresent) => ~aRet

\* goroutine t waits for the mutex it holds itself: it waits for ever
SelfDeadlock(t) ==
    Running(t) /\ Taken(t) /\ NextStmt(t).op = "lock" /\ mu = t

\* the call f has executed its last statement
Finished(f) == f.ip > Len(Code(f.fn))

\* C19: every status write made through setStatus is followed by exactly one
\* synchronous invocation of the callback registered at the write (none if
\* none is registered) with the written status as argument; the callback is
\* never invoked while the caller holds the mutex, so a callback that calls
\* IsShutdownPending, CancelShutdown or SetStatusCallback cannot deadlock.
C19_CallbackOutsideLock ==
    /\ \A t \in LkThreads : ~SelfDeadlock(t)
    /\ \A t \in LkThreads : \A i \in 1 .. Len(stacks[t]) :
          LET f == stacks[t][i]
          IN  f.fn = "setStatus" =>
                /\ ~f.cbHeld
                /\ f.cbCount <= 1
                /\ f.ip = 3 => (mu = t /\ lkFields.status = f.arg)
                /\ f.cbCount = 1 => (f.cbArg = f.arg /\ f.cb # "nil")
                /\ Finished(f) =>
                      /\ lkFields.status = f.arg
                      /\ f.cbCount = (IF f.cb # "nil" THEN 1 ELSE 0)

\* the callback of setStatus(ShutdownImminent) has called CancelShutdown,
\* which holds the mutex and found the shutdown not pending
C19_Witness ==
    /\ Len(stacks["monitor"]) = 2
    /\ stacks["monitor"][1].fn = "setStatus"
    /\ stacks["monitor"][1].cbArg = StatusShutdownImminent
    /\ stacks["monitor"][2].fn = "CancelShutdown"
    /\ stacks["monitor"][2].ip = 3
    /\ mu = "monitor"

\* two goroutines are about to access the same field, one of them writing
RaceNow ==
    \E t1, t2 \in LkThreads :
        /\ t1 # t2
        /\ Running(t1) /\ Taken(t1) /\ Running(t2) /\ Taken(t2)
        /\ NextStmt(t1).op \in { "read", "write" }
        /\ NextStmt(t2).op = "write"
        /\ NextStmt(t1).field = NextStmt(t2).field
        /\ NextStmt(t1).field \in MonitorStateFields

\* C20: every read and write of a MonitorState field made after construction
\* by StartMonitor, saveState, triggerShutdownWithCountdown, setStatus,
\* CancelShutdown and IsShutdownPending happens while the mutex is held, so
\* no field access races with a concurrent CancelShutdown.
C20_AllAccessesLocked ==
    /\ \A t \in LkThreads :
          lkAccess[t].field \in MonitorStateFields => lkAccess[t].held
    /\ ~RaceNow

\* C21: the monitor loop is blocked for the whole duration of a countdown:
\* while the countdown is active no polling cycle runs (no configuration
\* load, no SSID or presence check, no graceCount increment, no status write
\* by the loop), no second countdown is started, and the loop goes on to its
\* next cycle only out of the Cancelled or the Executed ending.
C21_LoopBlockedDuringCountdown ==
    [][ CountdownActive =>
          /\ pc' \in CountdownPcs \cup { "sleep" }
          /\ (pc' = "sleep" => pc \in { "caseCancel", "execute" })
          /\ (pc' = "arm" => pc = "arm")
          /\ (shutdownPending' /\ ~shutdownPending => pc = "arm")
          /\ settings' = settings /\ loadOK' = loadOK /\ ssid' = ssid
          /\ checked' = checked /\ alive' = alive
          /\ currentGrace' = currentGrace
          /\ (graceCount' = graceCount \/ (graceCount' = 0 /\ CancelStep))
          /\ (cycleStatuses' # cycleStatuses => pc = "caseCancel")
          /\ saveCalls' = saveCalls
      ]_vars

\* the countdown is running and has already beeped: the loop was held while
\* the ticker ticked
C21_Witness ==
    /\ pc = "caseBeep"
    /\ shutdownPending
    /\ ~timerFired

(* ---------- the process: phone commands, restart, the OS command ------- *)

MaxRestarts == 1

\* config.ShutdownAction*: the values ValidateShutdownAction accepts
ShutdownActionShutdown  == "shutdown"
ShutdownActionHibernate == "hibernate"
ShutdownActionLock      == "lock"
ShutdownActionSleep     == "sleep"

ShutdownActionChoices ==
    { ShutdownActionShutdown, ShutdownActionHibernate, ShutdownActionLock,
      ShutdownActionSleep }

\* the command lines executeShutdown builds
CmdShutdown == << "shutdown", "/s", "/t", "0" >>
CmdSuspend  == << "rundll32.exe", "powrprof.dll,SetSuspendState", "0,1,0" >>
CmdLock     == << "rundll32.exe", "user32.dll,LockWorkStation" >>

\* the switch of executeShutdown (Windows build)
ShutdownCommand(action) ==
    CASE action = ShutdownActionShutdown  -> CmdShutdown
      [] action = ShutdownActionHibernate -> CmdSuspend
      [] action = ShutdownActionSleep     -> CmdSuspend
      [] action = ShutdownActionLock      -> CmdLock
      [] OTHER                            -> CmdShutdown

\* the commands the phone can send (ntfy.Command)
CmdCancelAndPause == "cancel_pause"
CmdCancelOnly     == "cancel_only"
CmdPause          == "pause"
CmdResume         == "resume"
CmdStatus         == "status"

CancelCommands == { CmdCancelAndPause, CmdCancelOnly }
CommandChoices == CancelCommands \cup { CmdPause, CmdResume, CmdStatus }

\* the phone is tracked by its MAC address, or no device is configured yet
HostDeviceChoices == { d \in DeviceChoices : d.DetectionType = DetectionTypeMAC }

\* the settings Load can return, with the action to take; is_paused is the
\* one the settings file holds
HostSettingsChoices ==
    { [HomeSSID |-> "HomeNet", DetectionType |-> d.DetectionType,
       PhoneMAC |-> d.PhoneMAC, PhoneIP |-> d.PhoneIP, IsPaused |-> pausedFlag,
       GraceChecks |-> g, ShutdownDelay |-> sd, ShutdownAction |-> a] :
         d \in HostDeviceChoices, g \in WideGraceChoices, sd \in DelayChoices,
         a \in ShutdownActionChoices }

\* what GetCurrentSSID returns in this model: home, another network, and
\* the sentinel of a failed query
HostSSIDChoices == { "HomeNet", "CafeNet", SSIDUnknown }

\* config.Load succeeds, GetCurrentSSID is read
LoadSettingsHost == LoadSettingsFrom(HostSettingsChoices, HostSSIDChoices)

\* time.Sleep(PollInterval): the cycle ends, the next one begins
SleepHost ==
    /\ EndCycle
    /\ remoteCmd' = "none"
    /\ osOps' = << >>
    /\ ackSent' = FALSE
    /\ UNCHANGED << pausedFlag, restarts, hostFrame >>

\* executeShutdown(settings): the command of the configured action is run;
\* an error of cmd.Run is only logged
ExecuteShutdownHost ==
    /\ ExecuteReturn
    /\ \E failed \in BOOLEAN :
          osOps' = Append(osOps, [cmd |-> ShutdownCommand(settings.ShutdownAction),
                                  err |-> failed])
    /\ UNCHANGED << remoteCmd, pausedFlag, ackSent, restarts, hostFrame >>

\* a cancel command that arrives while a countdown is armed and its timer
\* has not fired
CancelInTime(cmd) ==
    /\ cmd \in CancelCommands
    /\ pc \in ArmedPcs
    /\ shutdownPending
    /\ ~timerFired

\* listenForCommands passes a command of the phone to the callback of
\* startNtfyCommandListener: pause and resume write is_paused (the error of
\* SetPaused is dropped) and answer, status answers, any other command falls
\* through the switch
RemoteCommand ==
    \E cmd \in CommandChoices :
        /\ CASE cmd = CmdPause ->
                   IF ~pausedFlag
                   THEN pausedFlag' \in { TRUE, pausedFlag } /\ ackSent' = TRUE
                   ELSE UNCHANGED << pausedFlag, ackSent >>
             [] cmd = CmdResume ->
                   IF pausedFlag
                   THEN pausedFlag' \in { FALSE, pausedFlag } /\ ackSent' = TRUE
                   ELSE UNCHANGED << pausedFlag, ackSent >>
             [] cmd = CmdStatus ->
                   ackSent' = TRUE /\ UNCHANGED pausedFlag
             [] OTHER ->
                   UNCHANGED << pausedFlag, ackSent >>
        /\ remoteCmd' = IF CancelInTime(cmd) THEN cmd ELSE remoteCmd
        /\ UNCHANGED << sentryVars, osOps, restarts, hostFrame >>

\* a restart that takes the flag for granted instead of reading the file
Restart_forgetsState ==
    /\ restarts < MaxRestarts
    /\ restarts' = restarts + 1
    /\ status' = StatusRoaming
    /\ graceCount' = 0
    /\ phoneEverSeen' = FALSE
    /\ shutdownPending' = FALSE
    /\ cancelShutdown' = 0
    /\ closed' = {}
    /\ pc' = "load"
    /\ settings' = DefaultSettings
    /\ loadOK' = FALSE
    /\ ssid' = ""
    /\ checked' = FALSE
    /\ alive' = FALSE
    /\ everSeen' = FALSE
    /\ currentGrace' = 0
    /\ selCh' = NoChan
    /\ countdown' = 0
    /\ timerReady' = FALSE
    /\ tickReady' = FALSE
    /\ cycleStatuses' = << >>
    /\ graceAtStart' = 0
    /\ triggered' = FALSE
    /\ timerFired' = FALSE
    /\ cancelEarly' = FALSE
    /\ cancelTrue' = FALSE
    /\ executed' = FALSE
    /\ saveCalls' = saveCalls
    /\ initialEverSeen' = FALSE
    /\ remoteCmd' = "none"
    /\ osOps' = << >>
    /\ ackSent' = FALSE
    /\ UNCHANGED << stateFile, pausedFlag, hostFrame >>

\* the process ends (the machine shuts down, the user quits) and is started
\* again: NewSentryManager and `go sentryManager.StartMonitor()`; the files
\* stay as they are
Restart ==
    /\ restarts < MaxRestarts
    /\ restarts' = restarts + 1
    /\ status' = StatusRoaming
    /\ graceCount' = 0
    /\ phoneEverSeen' = LoadState(stateFile)
    /\ shutdownPending' = FALSE
    /\ cancelShutdown' = 0
    /\ closed' = {}
    /\ pc' = "load"
    /\ settings' = DefaultSettings
    /\ loadOK' = FALSE
    /\ ssid' = ""
    /\ checked' = FALSE
    /\ alive' = FALSE
    /\ everSeen' = FALSE
    /\ currentGrace' = 0
    /\ selCh' = NoChan
    /\ countdown' = 0
    /\ timerReady' = FALSE
    /\ tickReady' = FALSE
    /\ cycleStatuses' = << >>
    /\ graceAtStart' = 0
    /\ triggered' = FALSE
    /\ timerFired' = FALSE
    /\ cancelEarly' = FALSE
    /\ cancelTrue' = FALSE
    /\ executed' = FALSE
    /\ saveCalls' = saveCalls
    /\ initialEverSeen' = LoadState(stateFile)
    /\ remoteCmd' = "none"
    /\ osOps' = << >>
    /\ ackSent' = FALSE
    /\ UNCHANGED << stateFile, pausedFlag, hostFrame >>

NextHost ==
    \/ LoadFails
    \/ LoadSettingsHost
    \/ PausedCycle
    \/ RoamingStatus
    \/ RoamReset
    \/ NoDevice
    \/ PhoneDetected
    \/ PresentLock
    \/ SaveState
    \/ PhoneMissing
    \/ WaitingStatus
    \/ GraceIncWide
    \/ GraceStatus
    \/ ImminentStatus
    \/ SleepHost
    \/ Arm
    \/ StartTimers
    \/ SelectEval
    \/ SelectPoll
    \/ Tick
    \/ TimerFire
    \/ CaseBeep
    \/ CaseTimer
    \/ ExecuteShutdownHost
    \/ CaseCancel
    \/ CancelShutdown
    \/ RemoteCommand

\* the process with either value of is_paused in its settings file, on its
\* first start or with the phone already seen
InitHost ==
    /\ SentryInit
    /\ stateFile \in { "missing", "true" }
    /\ RetryIdle /\ ArpIdle /\ LockIdle /\ CfgIdle /\ NtfyIdle
    /\ remoteCmd = "none"
    /\ pausedFlag \in BOOLEAN
    /\ osOps = << >>
    /\ ackSent = FALSE
    /\ restarts = 0

SpecHost == InitHost /\ [][NextHost]_vars

\* the settings Load can return to a process that is started again
RestartSettingsChoices ==
    { [HomeSSID |-> "HomeNet", DetectionType |-> d.DetectionType,
       PhoneMAC |-> d.PhoneMAC, PhoneIP |-> d.PhoneIP, IsPaused |-> p,
       GraceChecks |-> g, ShutdownDelay |-> sd] :
         d \in HostDeviceChoices, p \in BOOLEAN, g \in WideGraceChoices,
         sd \in DelayChoices }

\* config.Load succeeds, GetCurrentSSID is read
LoadSettingsRestart == LoadSettingsFrom(RestartSettingsChoices, HostSSIDChoices)

NextRestart ==
    \/ LoadFails
    \/ LoadSettingsRestart
    \/ PausedCycle
    \/ RoamingStatus
    \/ RoamReset
    \/ NoDevice
    \/ PhoneDetected
    \/ PresentLock
    \/ SaveState
    \/ PhoneMissing
    \/ WaitingStatus
    \/ GraceIncWide
    \/ GraceStatus
    \/ ImminentStatus
    \/ Sleep
    \/ Arm
    \/ StartTimers
    \/ SelectEval
    \/ SelectPoll
    \/ Tick
    \/ TimerFire
    \/ CaseBeep
    \/ CaseTimer
    \/ ExecuteShutdown
    \/ CaseCancel
    \/ CancelShutdown
    \/ Restart

SpecRestart == Init /\ [][NextRestart]_vars

HostTypeOK == restarts \in 0 .. MaxRestarts

\* C22: a cancel command of the phone (cancel-only or cancel-and-pause) that
\* arrives during an active countdown, before its timer fires, ends the
\* countdown as Cancelled: the protective action is not executed, and when
\* the countdown has returned shutdownPending is false, graceCount is 0, the
\* status is Monitoring (cancel-only) or Paused with the persisted paused
\* flag set (cancel-and-pause), and a notification has answered the command.
C22_RemoteCancelEndsCountdown ==
    remoteCmd # "none" =>
        /\ pc # "execute"
        /\ ~executed
        /\ pc = "sleep" =>
              /\ ~shutdownPending
              /\ graceCount = 0
              /\ status = IF remoteCmd = CmdCancelAndPause
                          THEN StatusPaused ELSE StatusMonitoring
              /\ (remoteCmd = CmdCancelAndPause => pausedFlag)
              /\ ackSent

\* the other actions that can be configured
OtherActions == ShutdownActionChoices \ { settings.ShutdownAction }

\* C25: when the timer case of the countdown is taken, shutdownPending is
\* false before the protective action is invoked, the action is invoked
\* exactly once, and the command that runs is the one of the configured
\* action and of no other action: shutdown, hibernate, sleep and lock each
\* have an operating-system operation of their own (an unrecognized action
\* runs the shutdown command).
C25_TimerExpiryRunsConfiguredAction ==
    /\ pc = "execute" => ~shutdownPending /\ osOps = << >>
    /\ Len(osOps) <= 1
    /\ executed =>
          /\ Len(osOps) = 1
          /\ osOps[1].cmd = ShutdownCommand(settings.ShutdownAction)
          /\ \A other \in OtherActions : osOps[1].cmd # ShutdownCommand(other)
    /\ \A unknown \in { "", "reboot", "Shutdown" } :
          ShutdownCommand(unknown) = CmdShutdown


\* a call of CancelShutdown by goroutine t that found shutdownPending false
\* (the call returns false)
CancelFoundNothing(t) ==
    /\ stacks[t] # << >>
    /\ Top(t).fn = "CancelShutdown"
    /\ Top(t).ip > 2
    /\ ~Top(t).flag

\* C23: CancelShutdown called while shutdownPending is false is a no-op: it
\* returns false and, having read the flag under the mutex, makes no other
\* access: status, graceCount and shutdownPending are not written and the
\* cancel channel is neither closed nor replaced.
C23_StaleCancelIsNoOp ==
    \A t \in LkThreads :
        CancelFoundNothing(t) =>
            lkAccess[t] = [fn |-> "CancelShutdown", field |-> "shutdownPending",
                           op |-> "read", held |-> TRUE]

\* the tray's CancelShutdown has run to its end and found nothing pending,
\* after the timer case of a countdown had cleared the flag
C23_Witness ==
    /\ CancelFoundNothing("tray")
    /\ ~Running("tray")
    /\ lkAccess["monitor"].fn = "timerCase"
    /\ ~lkFields.shutdownPending

\* C24: the local cancel signal is one-shot and recreated after each use:
\* the channel the manager holds is never a fired one; firing it wakes the
\* countdown parked on it, once (the woken countdown ends and does not wait
\* again); a countdown in which no cancel was made waits on an unfired
\* channel, so it is never ended by the cancel of an earlier countdown; and
\* the cancel case is only ever taken after a CancelShutdown made during
\* this very countdown.
C24_CancelSignalOneShot ==
    [][ /\ cancelShutdown' \notin closed'
        /\ (CancelStep /\ pc = "parked" => pc' = "caseCancel")
        /\ (pc = "caseCancel" => pc' \in { "caseCancel", "sleep" })
        /\ (pc' \in { "selectPoll", "parked" } /\ ~cancelTrue' => selCh' \notin closed')
        /\ (pc' = "caseCancel" => cancelTrue')
      ]_vars

\* a countdown that waited on the channel made by an earlier cancellation
\* has itself been cancelled
C24_Witness ==
    /\ pc = "caseCancel"
    /\ cancelTrue
    /\ selCh # 0
    /\ selCh \in closed

\* the step is a start of the process: a manager is constructed
RestartStep == restarts' = restarts + 1

\* C26: a newly constructed manager is Roaming with graceCount 0 and
\* shutdownPending false, and its phoneEverSeen is the value last persisted
\* with success (false when the state file is missing or not valid); the
\* flag a saveState wrote is the flag the next construction reads; and a
\* process whose state file holds true has phoneEverSeen true, never enters
\* WaitingForPhone, and takes a failed presence check at home through the
\* increment of graceCount (to 1 on the first one) to GracePeriod.
C26_ConstructionRestoresFlag ==
    [][ /\ RestartStep =>
              /\ status' = StatusRoaming
              /\ graceCount' = 0
              /\ ~shutdownPending'
              /\ phoneEverSeen' = (stateFile = "true")
              /\ stateFile' = stateFile
              /\ pc' = "load"
        /\ (stateFile' # stateFile =>
              /\ stateFile' = MarshalState(phoneEverSeen)
              /\ LoadState(stateFile') = phoneEverSeen)
        /\ (stateFile = "true" =>
              /\ stateFile' = "true"
              /\ phoneEverSeen'
              /\ pc' # "waiting"
              /\ ~SetsWaiting)
        /\ (stateFile = "true" /\ ~RestartStep =>
              /\ (pc = "branch" /\ checked' /\ ~alive' => pc' = "graceInc")
              /\ (pc = "graceInc" =>
                      graceCount' = graceCount + 1 /\ pc' = "graceStatus")
              /\ (pc = "graceStatus" => status' = StatusGracePeriod))
      ]_vars

\* the flag was saved as true, the process was started again, and its first
\* failed check at home has put it in the grace period with graceCount 1
C26_Witness ==
    /\ restarts = 1
    /\ saveCalls = 1
    /\ stateFile = "true"
    /\ initialEverSeen
    /\ status = StatusGracePeriod
    /\ graceCount = 1
    /\ graceAtStart = 0

\* the positions of the monitor goroutine inside the for loop of StartMonitor
\* and inside the countdown it calls
LoopPcs ==
    { "load", "branch", "paused", "roamReset", "presentLock", "save", "waiting",
      "graceInc", "graceStatus", "imminent", "sleep" } \cup CountdownPcs

\* a step of the monitor goroutine, or of the timer or ticker it waits for
MonitorStep ==
    \/ LoadFails
    \/ LoadSettingsHost
    \/ PausedCycle
    \/ RoamingStatus
    \/ RoamReset
    \/ NoDevice
    \/ PhoneDetected
    \/ PresentLock
    \/ SaveState
    \/ PhoneMissing
    \/ WaitingStatus
    \/ GraceIncWide
    \/ GraceStatus
    \/ ImminentStatus
    \/ SleepHost
    \/ Arm
    \/ StartTimers
    \/ SelectEval
    \/ SelectPoll
    \/ Tick
    \/ TimerFire
    \/ CaseBeep
    \/ CaseTimer
    \/ ExecuteShutdownHost
    \/ CaseCancel

\* the model stops counting here; the program goes on
AtGraceBound == pc = "graceInc" /\ graceCount >= MaxGraceWide

\* C27: no error path ends the monitor loop: whatever fails (configuration
\* load, SSID query, presence check, write of the state file, execution of
\* the protective action) and whatever cancel requests and phone commands
\* arrive, the monitor goroutine is at a position inside its loop, never
\* returned or stuck: it always has a next step, and the end of every cycle,
\* failed or not, is followed by the load of the next one.
C27_MonitorLoopNeverEnds ==
    /\ pc \in LoopPcs
    /\ AtGraceBound \/ ENABLED MonitorStep
    /\ pc = "sleep" => ENABLED (SleepHost /\ pc' = "load")

\* the protective action failed to execute and a cancel request was made
\* during the countdown; the cycle is over and the loop goes on
C27_Witness ==
    /\ pc = "sleep"
    /\ executed
    /\ osOps # << >>
    /\ osOps[1].err
    /\ cancelTrue

(* ----------------------- package config -------------------------------- *)

MinPollInterval     == 1
MaxPollInterval     == 300
DefaultPollInterval == 10

\* a text field of the settings file: the string and whether it is the
\* output of encryptString
Plain(text) == [enc |-> FALSE, text |-> text]
Sealed(text) == [enc |-> TRUE, text |-> text]

\* the twelve-digit addresses the regular expressions of validation.go accept
ValidHex == { "aabbccddeeff" }

\* the home networks used as arguments and file contents
CfgSSIDs == { "HomeNet", "CafeNet" }

\* the base64 text json.Unmarshal puts in a field that was encrypted
Ciphertext(text) == "base64:" \o text

\* SanitizeSSID: trimmed, at most 32 characters, none of them dangerous
SanitizeSSID(name) ==
    CASE name = ""            -> [ok |-> TRUE, value |-> ""]
      [] name \in CfgSSIDs    -> [ok |-> TRUE, value |-> name]
      [] name = " HomeNet "   -> [ok |-> TRUE, value |-> "HomeNet"]
      [] OTHER                -> [ok |-> FALSE, value |-> ""]

\* SanitizeMAC: twelve hex digits, bare or separated by colons or dashes,
\* become lower case with dashes
SanitizeMAC(m) ==
    CASE m = NoMac              -> [ok |-> TRUE, value |-> NoMac]
      [] m.hex \in ValidHex /\ m.sep \in { ":", "-", "" }
                                -> [ok |-> TRUE, value |-> MacText(m.hex, FALSE, "-")]
      [] OTHER                  -> [ok |-> FALSE, value |-> NoMac]

\* DefaultSettings() of package config, with the fields of this model
DefaultCfg ==
    [HomeSSID |-> "", PhoneMAC |-> NoMac, DetectionType |-> DetectionTypeMAC,
     IsPaused |-> FALSE, GraceChecks |-> DefaultGraceChecks,
     PollInterval |-> DefaultPollInterval, ShutdownDelay |-> DefaultShutdownDelay]

\* encryptString on a field: the empty string is left alone
EncryptField(v, empty) == IF v = empty THEN Plain(v) ELSE Sealed(v)

\* EncryptSettings and json.MarshalIndent: the contents of the file saveLocked
\* writes
EncryptSettings(st) ==
    [kind |-> "json",
     HomeSSID |-> EncryptField(st.HomeSSID, ""),
     PhoneMAC |-> EncryptField(st.PhoneMAC, NoMac),
     DetectionType |-> st.DetectionType, IsPaused |-> st.IsPaused,
     GraceChecks |-> st.GraceChecks, PollInterval |-> st.PollInterval,
     ShutdownDelay |-> st.ShutdownDelay]

\* decryptString succeeds on every non-empty text field
Decryptable(file) ==
    /\ file.HomeSSID.text # "" => file.HomeSSID.enc
    /\ file.PhoneMAC.text # NoMac => file.PhoneMAC.enc

\* DecryptSettings, or on its failure the fields as json.Unmarshal left them
\* (the legacy path of loadLocked): an encrypted field is then its base64 text
DecryptOrLegacy(file) ==
    [HomeSSID |-> IF Decryptable(file) \/ ~file.HomeSSID.enc
                  THEN file.HomeSSID.text ELSE Ciphertext(file.HomeSSID.text),
     PhoneMAC |-> IF Decryptable(file) \/ ~file.PhoneMAC.enc
                  THEN file.PhoneMAC.text
                  ELSE MacText(Ciphertext(file.PhoneMAC.text.hex), FALSE, ""),
     DetectionType |-> file.DetectionType, IsPaused |-> file.IsPaused,
     GraceChecks |-> file.GraceChecks, PollInterval |-> file.PollInterval,
     ShutdownDelay |-> file.ShutdownDelay]

\* ValidateSettings without its numeric range checks
ValidateSettings_noRanges(st) ==
    [st EXCEPT !.HomeSSID = SanitizeSSID(st.HomeSSID).value,
               !.PhoneMAC = SanitizeMAC(st.PhoneMAC).value,
               !.DetectionType = IF @ \in { DetectionTypeIP, DetectionTypeMAC }
                                 THEN @ ELSE DetectionTypeMAC]

\* ValidateSettings: a field that fails its check is reset to its default
ValidateSettings(st) ==
    [st EXCEPT !.HomeSSID = SanitizeSSID(st.HomeSSID).value,
               !.PhoneMAC = SanitizeMAC(st.PhoneMAC).value,
               !.DetectionType = IF @ \in { DetectionTypeIP, DetectionTypeMAC }
                                 THEN @ ELSE DetectionTypeMAC,
               !.GraceChecks = IF @ < MinGraceChecks \/ @ > MaxGraceChecks
                               THEN DefaultGraceChecks ELSE @,
               !.PollInterval = IF @ < MinPollInterval \/ @ > MaxPollInterval
                                THEN DefaultPollInterval ELSE @,
               !.ShutdownDelay = IF @ < ShutdownMinDelay \/ @ > ShutdownMaxDelay
                                 THEN DefaultShutdownDelay ELSE @]

\* loadLocked: the defaults for a missing file, the defaults and an error for
\* a file that cannot be read or parsed, else the validated contents
loadLocked(file) ==
    CASE file.kind = "missing" -> [settings |-> DefaultCfg, err |-> FALSE]
      [] file.kind = "corrupt" -> [settings |-> DefaultCfg, err |-> TRUE]
      [] OTHER -> [settings |-> ValidateSettings(DecryptOrLegacy(file)),
                   err |-> FALSE]

\* the arguments the callers pass
UpdateSSIDArgs == { "", "HomeNet" }
UpdateMACArgs ==
    { NoMac, MacText("aabbccddeeff", TRUE, ":"), MacText("invalid-mac", FALSE, "") }
DelayArgs ==
    { ShutdownMinDelay - 1, ShutdownMinDelay, ShutdownMaxDelay, ShutdownMaxDelay + 1 }

\* the calls of package config made in this model
CfgOps ==
    { [fn |-> "Load"] } \cup
    { [fn |-> "SetPaused", paused |-> b] : b \in BOOLEAN } \cup
    { [fn |-> "Update", name |-> n, mac |-> m] :
          n \in UpdateSSIDArgs, m \in UpdateMACArgs } \cup
    { [fn |-> "SetShutdownDelay", seconds |-> n] : n \in DelayArgs }

\* the calls each goroutine makes: the tray's click handlers call all of them,
\* the callback of the phone-command listener loads and pauses or resumes
CfgOpsOf(t) ==
    IF t = "tray" THEN CfgOps
    ELSE { op \in CfgOps : op.fn \in { "Load", "SetPaused" } }

\* the numeric fields of a settings file somebody wrote: at, below and above
\* the limits
GraceRaw == { MinGraceChecks - 1, MinGraceChecks, MaxGraceChecks, MaxGraceChecks + 1 }
PollRaw  == { MinPollInterval - 1, MinPollInterval, MaxPollInterval + 1 }
DelayRaw == { ShutdownMinDelay - 1, ShutdownMinDelay, ShutdownMaxDelay + 1 }

\* the settings files the process can find: none, an unreadable one, one
\* written by saveLocked and a legacy one in plain text, with any numbers
CfgFileChoices ==
    { MissingFile, CorruptFile } \cup
    { [kind |-> "json",
        HomeSSID |-> IF sealed THEN Sealed("CafeNet") ELSE Plain("CafeNet"),
        PhoneMAC |-> Plain(NoMac), DetectionType |-> DetectionTypeIP,
        IsPaused |-> FALSE, GraceChecks |-> g, PollInterval |-> pi,
        ShutdownDelay |-> sd] :
          sealed \in BOOLEAN, g \in GraceRaw, pi \in PollRaw, sd \in DelayRaw }

\* the checks SetShutdownDelay makes before it takes the mutex
PreCheck(op) ==
    op.fn = "SetShutdownDelay" =>
        op.seconds >= ShutdownMinDelay /\ op.seconds <= ShutdownMaxDelay

\* Update that stores the network name and goes on to save although the
\* address was rejected
ApplyUpdate_ignoresBadMac(st, op) ==
    LET n  == SanitizeSSID(op.name)
        m  == SanitizeMAC(op.mac)
        s1 == IF op.name # "" THEN [st EXCEPT !.HomeSSID = n.value] ELSE st
    IN  IF op.name # "" /\ ~n.ok
        THEN [ok |-> FALSE, settings |-> st]
        ELSE IF op.mac # NoMac /\ m.ok
             THEN [ok |-> TRUE,
                   settings |-> [s1 EXCEPT !.PhoneMAC = m.value,
                                           !.DetectionType = DetectionTypeMAC]]
             ELSE [ok |-> TRUE, settings |-> s1]

\* the body of Update between loadLocked and saveLocked: the first failed
\* sanitizer returns its error
ApplyUpdate(st, op) ==
    LET n  == SanitizeSSID(op.name)
        m  == SanitizeMAC(op.mac)
        s1 == IF op.name # "" THEN [st EXCEPT !.HomeSSID = n.value] ELSE st
    IN  IF op.name # "" /\ ~n.ok
        THEN [ok |-> FALSE, settings |-> st]
        ELSE IF op.mac # NoMac /\ ~m.ok
             THEN [ok |-> FALSE, settings |-> s1]
             ELSE IF op.mac # NoMac
                  THEN [ok |-> TRUE,
                        settings |-> [s1 EXCEPT !.PhoneMAC = m.value,
                                                !.DetectionType = DetectionTypeMAC]]
                  ELSE [ok |-> TRUE, settings |-> s1]

\* what a mutator does to the settings it loaded
Modify(st, op) ==
    CASE op.fn = "SetPaused" ->
             [ok |-> TRUE, settings |-> [st EXCEPT !.IsPaused = op.paused]]
      [] op.fn = "SetShutdownDelay" ->
             [ok |-> TRUE, settings |-> [st EXCEPT !.ShutdownDelay = op.seconds]]
      [] op.fn = "Update" -> ApplyUpdate(st, op)

\* goroutine t calls a function of package config; SetShutdownDelay returns
\* at once when its argument is out of range
CfgCall ==
    \E t \in CfgThreads :
      \E op \in CfgOpsOf(t) :
        /\ cfgPc[t] = "idle"
        /\ cfgOp' = [cfgOp EXCEPT ![t] = op]
        /\ IF PreCheck(op)
           THEN /\ cfgPc' = [cfgPc EXCEPT ![t] = "lock"]
                /\ UNCHANGED cfgRet
           ELSE /\ cfgPc' = [cfgPc EXCEPT ![t] = "done"]
                /\ cfgRet' = [cfgRet EXCEPT ![t] = [done |-> TRUE, err |-> TRUE]]
        /\ UNCHANGED << settingsFile, settingsMu, cfgLocal, fileAtCall, cfgFrame >>

\* a function that does not take the mutex
CfgLock_noMutex ==
    \E t \in CfgThreads :
        /\ cfgPc[t] = "lock"
        /\ cfgPc' = [cfgPc EXCEPT ![t] = "load"]
        /\ UNCHANGED << settingsFile, settingsMu, cfgOp, cfgLocal, cfgRet, fileAtCall,
                        cfgFrame >>

\* settingsMu.Lock()
CfgLock ==
    \E t \in CfgThreads :
        /\ cfgPc[t] = "lock"
        /\ settingsMu = "free"
        /\ settingsMu' = t
        /\ cfgPc' = [cfgPc EXCEPT ![t] = "load"]
        /\ UNCHANGED << settingsFile, cfgOp, cfgLocal, cfgRet, fileAtCall, cfgFrame >>

\* settings, err := loadLocked()
CfgLoadLocked ==
    \E t \in CfgThreads :
        /\ cfgPc[t] = "load"
        /\ cfgLocal' = [cfgLocal EXCEPT ![t] =
                          [loaded |-> TRUE,
                           settings |-> loadLocked(settingsFile).settings,
                           err |-> loadLocked(settingsFile).err]]
        /\ cfgPc' = [cfgPc EXCEPT ![t] = "loaded"]
        /\ UNCHANGED << settingsFile, settingsMu, cfgOp, cfgRet, fileAtCall, cfgFrame >>

\* after loadLocked: Load returns what it got; a mutator returns the error of
\* the load or of its validation, or changes its field and goes on to save
CfgModify ==
    \E t \in CfgThreads :
        LET op == cfgOp[t]
            l  == cfgLocal[t]
        IN  /\ cfgPc[t] = "loaded"
            /\ IF op.fn = "Load"
               THEN /\ cfgRet' = [cfgRet EXCEPT ![t] =
                                    [done |-> TRUE, err |-> l.err,
                                     settings |-> l.settings]]
                    /\ cfgPc' = [cfgPc EXCEPT ![t] = "unlock"]
                    /\ UNCHANGED cfgLocal
               ELSE IF l.err \/ ~Modify(l.settings, op).ok
               THEN /\ cfgRet' = [cfgRet EXCEPT ![t] = [done |-> TRUE, err |-> TRUE]]
                    /\ cfgPc' = [cfgPc EXCEPT ![t] = "unlock"]
                    /\ UNCHANGED cfgLocal
               ELSE /\ cfgLocal' = [cfgLocal EXCEPT ![t].settings =
                                      Modify(l.settings, op).settings]
                    /\ cfgPc' = [cfgPc EXCEPT ![t] = "save"]
                    /\ UNCHANGED cfgRet
            /\ UNCHANGED << settingsFile, settingsMu, cfgOp, fileAtCall, cfgFrame >>

\* return saveLocked(settings): the file is replaced by a rename, or an error
\* of the key store or of the file system leaves it as it was
CfgSaveLocked ==
    \E t \in CfgThreads, failed \in BOOLEAN :
        /\ cfgPc[t] = "save"
        /\ settingsFile' = IF failed THEN settingsFile
                           ELSE EncryptSettings(cfgLocal[t].settings)
        /\ cfgRet' = [cfgRet EXCEPT ![t] = [done |-> TRUE, err |-> failed]]
        /\ cfgPc' = [cfgPc EXCEPT ![t] = "unlock"]
        /\ UNCHANGED << settingsMu, cfgOp, cfgLocal, fileAtCall, cfgFrame >>

\* the deferred settingsMu.Unlock(), and the return
CfgUnlock ==
    \E t \in CfgThreads :
        /\ cfgPc[t] = "unlock"
        /\ settingsMu' = "free"
        /\ cfgPc' = [cfgPc EXCEPT ![t] = "done"]
        /\ UNCHANGED << settingsFile, cfgOp, cfgLocal, cfgRet, fileAtCall, cfgFrame >>

\* the calls that were in progress together are over; the callers go on
CfgReturn ==
    /\ \A t \in CfgThreads : cfgPc[t] \in { "idle", "done" }
    /\ \E t \in CfgThreads : cfgPc[t] = "done"
    /\ cfgPc' = [t \in CfgThreads |-> "idle"]
    /\ cfgOp' = [t \in CfgThreads |-> NoCfgOp]
    /\ cfgLocal' = [t \in CfgThreads |-> NoSettings]
    /\ cfgRet' = [t \in CfgThreads |-> NoCfgReturn]
    /\ fileAtCall' = settingsFile
    /\ UNCHANGED << settingsFile, settingsMu, cfgFrame >>

NextCfg ==
    \/ CfgCall
    \/ CfgLock
    \/ CfgLoadLocked
    \/ CfgModify
    \/ CfgSaveLocked
    \/ CfgUnlock
    \/ CfgReturn

\* the process with any of the settings files, no call in progress
InitCfg ==
    /\ SentryInit /\ stateFile = "missing"
    /\ RetryIdle /\ ArpIdle /\ LockIdle /\ HostIdle /\ NtfyIdle
    /\ settingsFile \in CfgFileChoices
    /\ settingsMu = "free"
    /\ cfgPc = [t \in CfgThreads |-> "idle"]
    /\ cfgOp = [t \in CfgThreads |-> NoCfgOp]
    /\ cfgLocal = [t \in CfgThreads |-> NoSettings]
    /\ cfgRet = [t \in CfgThreads |-> NoCfgReturn]
    /\ fileAtCall = settingsFile

SpecCfg == InitCfg /\ [][NextCfg]_vars

\* settingsMu is free or held by one goroutine
CfgTypeOK == settingsMu \in CfgThreads \cup { "free" }

\* the three numbers are within the limits of constants.go
InRange(st) ==
    /\ st.GraceChecks \in 1 .. 100
    /\ st.PollInterval \in 1 .. 300
    /\ st.ShutdownDelay \in 5 .. 300

\* goroutine t has just got its settings from loadLocked and holds the mutex
JustLoaded(t) == cfgPc[t] = "loaded" /\ settingsMu = t

\* C28: every Settings value Load or loadLocked returns, from a valid file,
\* a file with out-of-range values, a missing file, or together with an
\* error, has GraceChecks in [1,100], PollInterval in [1,300] and
\* ShutdownDelay in [5,300]; a number of the file that is within its range
\* is returned as it is, one that is not is replaced by its default (5, 10
\* and 10).
C28_LoadedSettingsInRange ==
    \A t \in CfgThreads :
        /\ cfgLocal[t].loaded => InRange(cfgLocal[t].settings)
        /\ cfgRet[t].done /\ cfgOp[t].fn = "Load" => InRange(cfgRet[t].settings)
        /\ JustLoaded(t) =>
              LET got == cfgLocal[t].settings
                  f   == settingsFile
              IN  IF f.kind = "json"
                  THEN /\ ~cfgLocal[t].err
                       /\ got.GraceChecks =
                             IF f.GraceChecks \in 1 .. 100 THEN f.GraceChecks ELSE 5
                       /\ got.PollInterval =
                             IF f.PollInterval \in 1 .. 300 THEN f.PollInterval ELSE 10
                       /\ got.ShutdownDelay =
                             IF f.ShutdownDelay \in 5 .. 300 THEN f.ShutdownDelay ELSE 10
                  ELSE /\ got.GraceChecks = 5
                       /\ got.PollInterval = 10
                       /\ got.ShutdownDelay = 10
                       /\ cfgLocal[t].err = (f.kind = "corrupt")

\* Load has returned the three defaults for a file whose three numbers were
\* all out of range
C28_Witness ==
    /\ cfgPc["tray"] = "done"
    /\ cfgOp["tray"].fn = "Load"
    /\ cfgPc["ntfy"] = "idle"
    /\ settingsFile.kind = "json"
    /\ settingsFile.GraceChecks = 0
    /\ settingsFile.PollInterval = 301
    /\ settingsFile.ShutdownDelay = 4
    /\ ~cfgRet["tray"].err
    /\ cfgRet["tray"].settings.GraceChecks = 5
    /\ cfgRet["tray"].settings.PollInterval = 10
    /\ cfgRet["tray"].settings.ShutdownDelay = 10

\* the arguments of the call pass its validation
OpValid(op) ==
    /\ PreCheck(op)
    /\ op.fn = "Update" => SanitizeSSID(op.name).ok /\ SanitizeMAC(op.mac).ok

\* every call of the round is over and none of them was a valid update
OnlyRejected ==
    /\ \A t \in CfgThreads : cfgPc[t] \in { "idle", "done" }
    /\ \A t \in CfgThreads :
          cfgPc[t] = "done" => cfgOp[t].fn = "Load" \/ ~OpValid(cfgOp[t])

\* C29: a configuration update that fails validation returns an error and
\* leaves the settings file as it was: the file is only ever written by a
\* call whose arguments are valid, so Update with an invalid MAC stores
\* neither the MAC nor the valid SSID of the same call, and
\* SetShutdownDelay with a value outside [5,300] writes nothing.
C29_RejectedUpdateWritesNothing ==
    [][ /\ settingsFile' # settingsFile =>
              \E t \in CfgThreads :
                  /\ cfgPc[t] = "save" /\ cfgPc'[t] = "unlock"
                  /\ OpValid(cfgOp[t])
                  /\ ~cfgRet'[t].err
        /\ \A t \in CfgThreads :
              cfgRet'[t].done /\ cfgOp'[t].fn # "Load" /\ ~OpValid(cfgOp'[t])
                  => cfgRet'[t].err
        /\ OnlyRejected' => settingsFile' = fileAtCall'
      ]_vars

\* Update was called with a valid network name and an invalid address: it
\* returned an error and the file still holds the other network
C29_Witness ==
    /\ cfgPc["tray"] = "done"
    /\ cfgOp["tray"] = [fn |-> "Update", name |-> "HomeNet",
                        mac |-> MacText("invalid-mac", FALSE, "")]
    /\ cfgRet["tray"].err
    /\ cfgPc["ntfy"] = "idle"
    /\ settingsFile.kind = "json"
    /\ settingsFile = fileAtCall
    /\ settingsFile.HomeSSID.text = "CafeNet"

\* goroutine t is between its Lock and its Unlock of settingsMu
InCritical(t) == cfgPc[t] \in { "load", "loaded", "save", "unlock" }

\* the call of goroutine t returned without an error
Succeeded(t) == cfgPc[t] = "done" /\ ~cfgRet[t].err

\* the settings hold what the call asked for
Holds(op, st) ==
    CASE op.fn = "SetPaused" -> st.IsPaused = op.paused
      [] op.fn = "SetShutdownDelay" -> st.ShutdownDelay = op.seconds
      [] op.fn = "Update" ->
             /\ op.name # "" => st.HomeSSID = SanitizeSSID(op.name).value
             /\ op.mac # NoMac =>
                   /\ st.PhoneMAC = SanitizeMAC(op.mac).value
                   /\ st.DetectionType = DetectionTypeMAC
      [] OTHER -> TRUE

\* C30: the mutators do their load-modify-save as one step under
\* settingsMu: no two goroutines are between Lock and Unlock at once; when
\* two concurrent calls that change different fields have both succeeded,
\* the settings file holds both changes; and a concurrent Load returns the
\* settings as they were before the other call or as they are after the
\* whole of it.
C30_MutatorsAtomic ==
    /\ \A t \in CfgThreads : InCritical(t) => settingsMu = t
    /\ (/\ \A t \in CfgThreads : Succeeded(t)
        /\ cfgOp["tray"].fn # cfgOp["ntfy"].fn)
         => \A t \in CfgThreads :
                Holds(cfgOp[t], loadLocked(settingsFile).settings)
    /\ \A t \in CfgThreads :
          Succeeded(t) /\ cfgOp[t].fn = "Load" =>
              cfgRet[t].settings \in { loadLocked(fileAtCall).settings,
                                       loadLocked(settingsFile).settings }

\* SetShutdownDelay of the tray and SetPaused of the phone ran together, both
\* succeeded, and the file holds the new delay and the new pause flag
C30_Witness ==
    /\ Succeeded("tray") /\ Succeeded("ntfy")
    /\ cfgOp["tray"] = [fn |-> "SetShutdownDelay", seconds |-> ShutdownMaxDelay]
    /\ cfgOp["ntfy"] = [fn |-> "SetPaused", paused |-> TRUE]
    /\ fileAtCall.kind = "json"
    /\ ~fileAtCall.IsPaused
    /\ fileAtCall.ShutdownDelay # ShutdownMaxDelay
    /\ settingsFile.IsPaused
    /\ settingsFile.ShutdownDelay = ShutdownMaxDelay

(* ----------------- the countdown and the status ------------------------ *)

\* C35: in every state reachable through StartMonitor and CancelShutdown,
\* shutdownPending = true implies status = ShutdownImminent: the status is
\* ShutdownImminent when the countdown is armed, and while shutdownPending
\* stays true no step changes the status.
C35_PendingImpliesImminent ==
    [][ /\ shutdownPending' => status' = StatusShutdownImminent
        /\ (shutdownPending' /\ ~shutdownPending) =>
              (pc = "arm" /\ status = StatusShutdownImminent)
        /\ (shutdownPending /\ shutdownPending') => status' = status
        /\ (status' # status /\ status = StatusShutdownImminent) => ~shutdownPending
      ]_vars

\* a countdown is armed, the select loop is running and alert ticks have
\* been played, with the status still ShutdownImminent
C35_Witness ==
    /\ shutdownPending
    /\ status = StatusShutdownImminent
    /\ pc \in { "selectPoll", "parked" }
    /\ countdown < settings.ShutdownDelay - BeepSeconds

\* C36: each cancel channel object is closed at most once: the only step
\* that closes a channel is a CancelShutdown that finds a shutdown pending,
\* the channel it closes is the stored one and is not closed yet (closing a
\* closed channel would panic), and it stores a fresh, unclosed channel
\* before it releases the mutex; so whenever the mutex is free the channel
\* of the manager is an unclosed one.
C36_ChannelClosedOnce ==
    [][ /\ cancelShutdown \notin closed
        /\ (closed' # closed \/ cancelShutdown' # cancelShutdown) =>
              /\ shutdownPending /\ ~shutdownPending'
              /\ cancelShutdown \in closed'
              /\ closed' \subseteq closed \cup {cancelShutdown}
              /\ cancelShutdown' \notin closed' \cup {cancelShutdown, selCh}
      ]_vars

\* a second countdown has just been cancelled: the channel made by the first
\* CancelShutdown is the closed one, and the manager holds a new, unclosed
\* channel (the first channel object is no longer referred to)
C36_Witness ==
    /\ cancelTrue
    /\ ~shutdownPending
    /\ closed = {1}
    /\ cancelShutdown = 0
    /\ pc = "caseCancel"

(* ------------------ pausing while a countdown runs --------------------- *)

\* the step is the call of executeShutdown by the timer case
ExecuteStep == pc = "execute" /\ pc' = "sleep"

\* C33: the protective action is never executed while protection is paused:
\* when the persisted paused flag has become true after the escalation and
\* before the shutdown timer fires, the running countdown does not execute
\* the protective action.
C33_NoActionWhilePaused ==
    [][ ExecuteStep => ~pausedFlag ]_vars

(* ------------- the monitor after an executed countdown ----------------- *)

\* executeShutdown(settings) returns and StartMonitor goes on: the command
\* that was run is kept, together with the value graceCount had
ExecuteShutdownAfter ==
    /\ ExecuteReturn
    /\ \E failed \in BOOLEAN :
          osOps' = << [cmd |-> ShutdownCommand(settings.ShutdownAction),
                       err |-> failed, grace |-> graceCount] >>
    /\ UNCHANGED << remoteCmd, pausedFlag, ackSent, restarts, hostFrame >>

\* time.Sleep(PollInterval): the cycle ends; the executed command is
\* forgotten once graceCount has been reset since
SleepAfter ==
    /\ EndCycle
    /\ osOps' = IF osOps # << >> /\ graceCount < osOps[1].grace THEN << >> ELSE osOps
    /\ UNCHANGED << remoteCmd, pausedFlag, ackSent, restarts, hostFrame >>

NextAfter ==
    \/ LoadFails
    \/ LoadSettingsHost
    \/ PausedCycle
    \/ RoamingStatus
    \/ RoamReset
    \/ NoDevice
    \/ PhoneDetected
    \/ PresentLock
    \/ SaveState
    \/ PhoneMissing
    \/ WaitingStatus
    \/ GraceIncWide
    \/ GraceStatus
    \/ ImminentStatus
    \/ SleepAfter
    \/ Arm
    \/ StartTimers
    \/ SelectEval
    \/ SelectPoll
    \/ Tick
    \/ TimerFire
    \/ CaseBeep
    \/ CaseTimer
    \/ ExecuteShutdownAfter
    \/ CaseCancel
    \/ CancelShutdown

SpecAfter == InitHost /\ [][NextAfter]_vars

\* the step enters the countdown: shutdownPending = true
ArmStep == pc = "arm" /\ pc' = "startTimers"

\* C34: after a countdown has ended as Executed and the process keeps
\* running (the action was lock, or the OS command failed), a new countdown
\* starts only after graceThreshold further consecutive failed presence
\* checks: when a countdown is armed, graceCount has grown by at least
\* GraceChecks since the execution.
C34_FullGraceAfterExecution ==
    [][ (/\ ArmStep
         /\ osOps # << >>
         /\ (osOps[1].cmd = CmdLock \/ osOps[1].err))
           => graceCount >= osOps[1].grace + settings.GraceChecks
      ]_vars

(* ------------------------- Retry and success --------------------------- *)

\* C38: Retry and RetryWithResult report success (a nil error) only if some
\* invocation of the operation returned success, for every RetryConfig
\* value, MaxAttempts <= 0 included.
C38_SuccessNeedsSuccessfulCall ==
    (rPc = "done" /\ rRet.err = 0) => \E i \in 1 .. Len(calls) : calls[i].ok

(* ------------------- the countdown comes to an end --------------------- *)

\* the settings of the runs whose countdown is followed to its end: the
\* shortest and the longest delay
LiveSettingsChoices ==
    { [HomeSSID |-> "HomeNet", DetectionType |-> d.DetectionType,
       PhoneMAC |-> d.PhoneMAC, PhoneIP |-> d.PhoneIP, IsPaused |-> p,
       GraceChecks |-> MinGraceChecks, ShutdownDelay |-> sd] :
         d \in HostDeviceChoices, p \in BOOLEAN,
         sd \in { ShutdownMinDelay, ShutdownMaxDelay } }

\* config.Load succeeds, GetCurrentSSID is read
LoadSettingsLive == LoadSettingsFrom(LiveSettingsChoices, { "HomeNet", "CafeNet" })

NextLive ==
    \/ LoadFails
    \/ LoadSettingsLive
    \/ PausedCycle
    \/ RoamingStatus
    \/ RoamReset
    \/ NoDevice
    \/ PhoneDetected
    \/ PresentLock
    \/ SaveState
    \/ PhoneMissing
    \/ WaitingStatus
    \/ GraceIncWide
    \/ GraceStatus
    \/ ImminentStatus
    \/ Sleep
    \/ Arm
    \/ StartTimers
    \/ SelectEval
    \/ SelectPoll
    \/ Tick
    \/ TimerFire
    \/ CaseBeep
    \/ CaseTimer
    \/ ExecuteShutdown
    \/ CaseCancel
    \/ CancelShutdown

\* the steps the monitor goroutine takes by itself inside
\* triggerShutdownWithCountdown and at the end of the cycle
CountdownStep ==
    \/ Arm
    \/ StartTimers
    \/ SelectEval
    \/ SelectPoll
    \/ CaseBeep
    \/ CaseTimer
    \/ ExecuteShutdown
    \/ CaseCancel
    \/ Sleep

\* the select statement takes the timer case
SelectTimerCase == SelectPoll /\ pc' = "caseTimer"

\* the process on its first start or with the phone already seen
InitLive == Init /\ stateFile \in { "missing", "true" }

\* the monitor goroutine is scheduled whenever it can run, the shutdown timer
\* fires, and a select that finds the timer case ready again and again takes
\* it in the end (the Go runtime picks among the ready cases at random)
SpecLive ==
    /\ InitLive
    /\ [][NextLive]_vars
    /\ WF_vars(CountdownStep)
    /\ WF_vars(TimerFire)
    /\ SF_vars(SelectTimerCase)

\* the countdown of this cycle is over: it was cancelled or it executed
CountdownEnded == pc = "sleep" /\ triggered /\ (executed \/ cancelTrue)

\* C39: every countdown terminates: for the shortest and the longest delay,
\* with the timer firing and the countdown goroutine scheduled fairly, a
\* countdown that was started ends as Cancelled or Executed and the monitor
\* loop begins its next poll, whatever alert ticks and cancel requests come
\* in between.
C39_CountdownTerminates ==
    /\ (pc \in CountdownPcs) ~> CountdownEnded
    /\ CountdownEnded ~> (pc = "load")

\* a countdown of the longest delay has played all its alert ticks, a
\* CancelShutdown came too late for the select to see it, and the countdown
\* ended as Executed
C39_Witness ==
    /\ CountdownEnded
    /\ executed
    /\ cancelTrue
    /\ settings.ShutdownDelay = ShutdownMaxDelay
    /\ countdown <= 0

(* ------------------------------ package ntfy --------------------------- *)

\* listener goroutines one Client starts in a run
MaxListeners == 2
\* messages posted on the topic in a run
MaxMsgs == 2
\* message texts on the topic: a command as a notification button posts it,
\* a command typed by hand, and a text that is no command
MessageBodies == { CmdCancelOnly, " Status ", "hello" }

\* strings.ToLower(strings.TrimSpace(msg.Message))
Normalize(body) == IF body = " Status " THEN CmdStatus ELSE body

\* nothing found: the empty command and the empty id
NoCommand == [cmd |-> "", id |-> 0]

\* Max of a non-empty set of numbers
MaxOf(S) == CHOOSE x \in S : \A y \in S : y <= x

\* checkForCommand: of the messages of the window, in order, the last one
\* whose id is not lastID and whose normalized text is a command
checkForCommand(window, lastID) ==
    LET found == { i \in 1 .. Len(window) :
                      /\ window[i].id # lastID
                      /\ Normalize(window[i].body) \in CommandChoices }
    IN  IF found = {}
        THEN NoCommand
        ELSE [cmd |-> Normalize(window[MaxOf(found)].body),
              id  |-> window[MaxOf(found)].id]

\* what a poll can get: the answer of the server, or nothing when the
\* request fails
PollResults(window, lastID) == { checkForCommand(window, lastID), NoCommand }

\* a listener goroutine at its start: kind is "cmd" for listenForCommands,
\* "cancel" for listenForShutdownCancel; ctxDone is its context, lastID its
\* local lastMessageID, sent what it sent on cmdCh, chClosed whether cmdCh
\* is closed
NewListener(kind) ==
    [kind |-> kind, at |-> "loop", ctxDone |-> FALSE, lastID |-> 0,
     sent |-> << >>, chClosed |-> FALSE]

\* StartCommandListener / StartShutdownCancelListener, under c.mu: an error
\* while c.listening is set; otherwise a new context, c.cancelFunc,
\* c.listening = true and the listener goroutine
StartListener(kind) ==
    /\ Len(nRoutines) < MaxListeners
    /\ IF nListening
       THEN UNCHANGED << nRoutines, nCancelFunc, nListening >>
       ELSE /\ nRoutines' = Append(nRoutines, NewListener(kind))
            /\ nCancelFunc' = Len(nRoutines) + 1
            /\ nListening' = TRUE
    /\ UNCHANGED << topic, posted, dispatched, ntfyFrame >>

StartCommandListener == StartListener("cmd")

StartShutdownCancelListener == StartListener("cancel")

\* StopListener, under c.mu: cancel the stored context, forget it, clear the
\* flag
StopListener ==
    /\ IF nCancelFunc # 0
       THEN nRoutines' = [nRoutines EXCEPT ![nCancelFunc].ctxDone = TRUE]
       ELSE UNCHANGED nRoutines
    /\ nCancelFunc' = 0
    /\ nListening' = FALSE
    /\ UNCHANGED << topic, posted, dispatched, ntfyFrame >>

\* a message is posted on the topic
PostMessage ==
    /\ posted < MaxMsgs
    /\ \E body \in MessageBodies :
          topic' = Append(topic, [id |-> posted + 1, body |-> body])
    /\ posted' = posted + 1
    /\ UNCHANGED << nListening, nCancelFunc, nRoutines, dispatched, ntfyFrame >>

\* the oldest message is more than 10 s old and leaves the window
ExpireMessage ==
    /\ topic # << >>
    /\ topic' = Tail(topic)
    /\ UNCHANGED << nListening, nCancelFunc, nRoutines, posted, dispatched, ntfyFrame >>

\* case <-ctx.Done(): return (the locals of the loop are gone)
ListenerStopped ==
    \E g \in 1 .. Len(nRoutines) :
        /\ nRoutines[g].at = "loop"
        /\ nRoutines[g].ctxDone
        /\ nRoutines' = [nRoutines EXCEPT ![g].at = "exit", ![g].lastID = 0]
        /\ UNCHANGED << nListening, nCancelFunc, topic, posted, dispatched, ntfyFrame >>

\* listenForCommands, case <-ticker.C: cmd, msgID := checkForCommand(url,
\* lastMessageID); a command with another id than lastMessageID is
\* remembered and passed to the callback
CommandPoll ==
    \E g \in 1 .. Len(nRoutines) :
        /\ nRoutines[g].kind = "cmd"
        /\ nRoutines[g].at = "loop"
        /\ \E r \in PollResults(topic, nRoutines[g].lastID) :
              IF r.cmd # "" /\ r.id # nRoutines[g].lastID
              THEN /\ nRoutines' = [nRoutines EXCEPT ![g].lastID = r.id]
                   /\ dispatched' =
                         IF [by |-> g, id |-> r.id] \in dispatched.once
                         THEN [dispatched EXCEPT !.again = @ \cup {[by |-> g, id |-> r.id]}]
                         ELSE [dispatched EXCEPT !.once = @ \cup {[by |-> g, id |-> r.id]}]
              ELSE UNCHANGED << nRoutines, dispatched >>
        /\ UNCHANGED << nListening, nCancelFunc, topic, posted, ntfyFrame >>

\* the cancel listener that forwards whatever command it finds
CancelPoll_forwardsAll ==
    \E g \in 1 .. Len(nRoutines) :
        /\ nRoutines[g].kind = "cancel"
        /\ nRoutines[g].at = "loop"
        /\ \E r \in PollResults(topic, 0) :
              IF r.cmd # ""
              THEN nRoutines' =
                      [nRoutines EXCEPT
                         ![g].sent = IF Len(@) < 1 THEN Append(@, r.cmd) ELSE @,
                         ![g].at = "exit"]
              ELSE UNCHANGED nRoutines
        /\ UNCHANGED << nListening, nCancelFunc, topic, posted, dispatched, ntfyFrame >>

\* listenForShutdownCancel, case <-ticker.C: cmd, _ := checkForCommand(url,
\* ""); a cancel command is sent on cmdCh unless its buffer of one is full,
\* and the listener returns
CancelPoll ==
    \E g \in 1 .. Len(nRoutines) :
        /\ nRoutines[g].kind = "cancel"
        /\ nRoutines[g].at = "loop"
        /\ \E r \in PollResults(topic, 0) :
              IF r.cmd \in CancelCommands
              THEN nRoutines' =
                      [nRoutines EXCEPT
                         ![g].sent = IF Len(@) < 1 THEN Append(@, r.cmd) ELSE @,
                         ![g].at = "exit"]
              ELSE UNCHANGED nRoutines
        /\ UNCHANGED << nListening, nCancelFunc, topic, posted, dispatched, ntfyFrame >>

\* the deferred function of a listener: c.listening = false under c.mu
ListenerClearFlag ==
    \E g \in 1 .. Len(nRoutines) :
        /\ nRoutines[g].at = "exit"
        /\ nListening' = FALSE
        /\ nRoutines' = [nRoutines EXCEPT
                           ![g].at = IF nRoutines[g].kind = "cancel" THEN "close" ELSE "gone"]
        /\ UNCHANGED << nCancelFunc, topic, posted, dispatched, ntfyFrame >>

\* the deferred function of listenForShutdownCancel, after the unlock:
\* close(cmdCh); the goroutine is gone
ListenerCloseChan ==
    \E g \in 1 .. Len(nRoutines) :
        /\ nRoutines[g].at = "close"
        /\ nRoutines' = [nRoutines EXCEPT ![g].chClosed = TRUE, ![g].at = "gone"]
        /\ UNCHANGED << nListening, nCancelFunc, topic, posted, dispatched, ntfyFrame >>

NextNtfy ==
    \/ StartCommandListener
    \/ StartShutdownCancelListener
    \/ StopListener
    \/ PostMessage
    \/ ExpireMessage
    \/ ListenerStopped
    \/ CommandPoll
    \/ CancelPoll
    \/ ListenerClearFlag
    \/ ListenerCloseChan

InitNtfy == SentryInit /\ stateFile = "missing" /\ ExtIdle

SpecNtfy == InitNtfy /\ [][NextNtfy]_vars

\* one Client used for shutdown-cancel listeners only
NextCancelListener ==
    \/ StartShutdownCancelListener
    \/ StopListener
    \/ PostMessage
    \/ ExpireMessage
    \/ ListenerStopped
    \/ CancelPoll
    \/ ListenerClearFlag
    \/ ListenerCloseChan

SpecCancelListener == InitNtfy /\ [][NextCancelListener]_vars

NtfyTypeOK ==
    /\ nListening \in BOOLEAN
    /\ nCancelFunc \in 0 .. Len(nRoutines)
    /\ Len(nRoutines) <= MaxListeners
    /\ \A g \in 1 .. Len(nRoutines) :
          /\ nRoutines[g].kind \in { "cmd", "cancel" }
          /\ nRoutines[g].at \in { "loop", "exit", "close", "gone" }
          /\ nRoutines[g].lastID \in 0 .. posted
    /\ posted \in 0 .. MaxMsgs
    /\ dispatched.again \subseteq dispatched.once
    /\ \A d \in dispatched.once : d.by \in 1 .. Len(nRoutines) /\ d.id \in 1 .. posted

\* C31: the ntfy command listener delivers each received command message to
\* the callback at most once: over successive polls with overlapping
\* windows, a listener never dispatches a message it has already dispatched.
C31_DispatchedAtMostOnce == dispatched.again = {}

\* the cancel listeners among the listener goroutines
CancelListeners == { g \in 1 .. Len(nRoutines) : nRoutines[g].kind = "cancel" }

\* C32: the shutdown-cancel listener sends at most one command on its
\* channel, and only cancel_pause or cancel_only, never pause, resume or
\* status; it leaves its loop only after a cancel command or after its
\* context was cancelled by StopListener, and on both ways out it clears the
\* listening flag and then closes the channel, after which it sends nothing.
C32_CancelListenerExit ==
    [][ \A g \in CancelListeners :
          LET old == nRoutines[g]
              new == nRoutines'[g]
          IN  /\ Len(new.sent) <= 1
              /\ \A k \in 1 .. Len(new.sent) :
                    new.sent[k] \in { CmdCancelAndPause, CmdCancelOnly }
              /\ new.sent # old.sent => (old.at = "loop" /\ new.at = "exit")
              /\ (old.at = "loop" /\ new.at # "loop") =>
                    (new.at = "exit" /\ (old.ctxDone \/ new.sent # old.sent))
              /\ (old.at = "exit" /\ new.at # "exit") =>
                    (new.at = "close" /\ ~nListening')
              /\ (old.at = "close" /\ new.at # "close") =>
                    (new.at = "gone" /\ new.chClosed)
              /\ new.chClosed <=> new.at = "gone"
      ]_vars

\* one cancel listener has ended on a cancel_only command, with a status
\* command older than it in the window, and another one has ended on
\* StopListener: both channels are closed, the flag is clear
C32_Witness ==
    \E g, h \in CancelListeners :
        /\ nRoutines[g].at = "gone"
        /\ nRoutines[g].sent = << CmdCancelOnly >>
        /\ nRoutines[g].chClosed
        /\ nRoutines[h].at = "gone"
        /\ nRoutines[h].ctxDone
        /\ nRoutines[h].sent = << >>
        /\ nRoutines[h].chClosed
        /\ ~nListening
        /\ \E k \in 1 .. Len(topic) : Normalize(topic[k].body) = CmdStatus

\* the listener goroutines that are in their loop with a live context
LiveListeners ==
    { g \in 1 .. Len(nRoutines) : nRoutines[g].at = "loop" /\ ~nRoutines[g].ctxDone }

\* C37: for one Client at most one listener goroutine is running at any
\* time, and IsListening() is true whenever one is running, under every
\* interleaving of the Start calls and StopListener with listener goroutines
\* that are still on their way out.
C37_OneListener ==
    /\ Cardinality(LiveListeners) <= 1
    /\ LiveListeners # {} => nListening

====
